---- MODULE Spec2Model ----
(***************************************************************************)
(* Ghiblify backend: the credit ledger and the payment reconciliation of   *)
(* its payment rails (Stripe, Coinbase Commerce, Base Pay, GHIBLIFY token, *)
(* CELO), as a state machine over the shared key-value store.              *)
(*                                                                         *)
(* A request handler is a process; every store command it issues is one    *)
(* atomic step, so handlers of different server instances interleave at    *)
(* the granularity of store commands.                                      *)
(***************************************************************************)
EXTENDS Integers, Sequences, FiniteSets, TLC

\* ------------------------------------------------------------------ bounds

\* Operations (requests, deliveries) started in one behaviour.
MaxOps == 3

\* Amounts of admin additions and of /web3/credits/use are 1..MaxAmount.
MaxAmount == 2

\* The longest list of operations passed to bulk_credit_operation.
MaxBulk == 2

\* ----------------------------------------------------------------- domains

\* Wallet addresses, already lower-cased.
Addr == {"0xa", "0xb"}

\* Concurrent request handlers (workers, server instances).
Procs == {"h1", "h2"}

\* The one handler of the specifications that take one request at a time.
SeqProcs == {"h1"}

None == "none"

\* Stripe checkout sessions, Base Pay payments, Coinbase charges, GHIBLIFY
\* token transactions and CELO transactions that deliveries may name.
Sessions == {"cs_1", "cs_2", "cs_3"}

\* SIWE nonces that requests may carry.
Nonces == {"n1", "n2"}

BasePayments == {"bp_1", "bp_2"}

Charges == {"ch_1", "ch_2"}

TokenTxs == {"tk_1", "tk_2"}

CeloTxs == {"tx_1", "tx_2", "tx_3", "tx_4"}

PayIds == Sessions \cup BasePayments \cup Charges \cup TokenTxs \cup CeloTxs

\* _build_key(BASE_PAY_HISTORY | CELO_HISTORY, address)
HistoryKeys == {"base_pay_history", "celo_history"} \X Addr

\* ------------------------------------------------------------------- state

VARIABLES
    credits,      \* store: hash user:<addr>, field credits (absent = 0)
    memCredits,   \* the service's in-memory fallback _memory_credits
    proc,         \* per handler: operation, position, arguments, locals
    started,      \* number of operations started so far
    expected,     \* bookkeeping: per address, the sum of the amounts of the
                  \* mutations that returned success (adds, refunds, -spends)
    markers,      \* store: the processed/credited keys that exist
    customer,     \* store: stripe_customer:<addr> (None = absent)
    history,      \* store: the payment history lists, newest first
    celoCredits,  \* store: string key credits:<addr> of the CELO handler
    watching,     \* per handler: the keys its pipeline WATCHes
    dirty,        \* per handler: a watched key was written since WATCH
    lastBlock,    \* store: celo_last_processed_block
    logs,         \* per handler: the logs process_pending_events has left
    imgbb,        \* per handler: the locals of upload_to_imgbb
    nonces,       \* store: the SIWE nonce keys that exist (900 s expiry)
    request,      \* per handler: signature header and event type of the
                  \* webhook request it is handling
    bulk,         \* per handler: the operations of the bulk call it is
                  \* running and the results appended so far
    granted       \* bookkeeping: per payment id, the net increase of stored
                  \* balances made by the writes done in its name

payVars == <<markers, customer, history>>

celoVars == <<celoCredits, watching, dirty, lastBlock, logs>>

\* What the handlers of the ledger and of the payment rails never touch.
ioVars == <<imgbb, nonces, request, bulk>>

vars == <<credits, memCredits, proc, started, expected, payVars, celoVars,
          ioVars, granted>>

\* upload_to_imgbb before its loop: attempts = 0, last_error = None; posts
\* and sleeps record the outcomes of the POSTs made and the sleeps taken.
NoUpload == [attempts |-> 0, last_error |-> None, posts |-> <<>>, sleeps |-> 0]

NoRequest == [signature |-> None, type |-> None]

NoBulk == [operations |-> <<>>, results |-> <<>>]

IdleProc ==
    [kind |-> "idle", pc |-> "idle", ret |-> None, addr |-> None,
     amt |-> 0, pay |-> None, cur |-> 0, res |-> None, tier |-> None]

Init ==
    /\ credits = [a \in Addr |-> 0]
    /\ memCredits = [a \in Addr |-> 0]
    /\ proc = [p \in Procs |-> IdleProc]
    /\ started = 0
    /\ expected = [a \in Addr |-> 0]
    /\ markers = {}
    /\ customer = [a \in Addr |-> None]
    /\ history = [k \in HistoryKeys |-> <<>>]
    /\ celoCredits = [a \in Addr |-> 0]
    /\ watching = [p \in Procs |-> {}]
    /\ dirty = [p \in Procs |-> FALSE]
    /\ lastBlock = 0
    /\ logs = [p \in Procs |-> <<>>]
    /\ granted = [i \in PayIds |-> 0]
    /\ imgbb = [p \in Procs |-> NoUpload]
    /\ nonces = {}
    /\ request = [p \in Procs |-> NoRequest]
    /\ bulk = [p \in Procs |-> NoBulk]

\* A handler slot is free before its first request and after a response.
Free(p) == proc[p].pc \in {"idle", "done"}

\* No request is in flight.
Quiet == \A p \in Procs : Free(p)

CanStart(p) == Free(p) /\ started < MaxOps

\* The slot of handler p taken by a new request.
Begin(p, kind, pc, ret, addr, amt, pay) ==
    /\ proc' = [proc EXCEPT ![p] =
                  [kind |-> kind, pc |-> pc, ret |-> ret, addr |-> addr,
                   amt |-> amt, pay |-> pay, cur |-> 0, res |-> None, tier |-> None]]
    /\ started' = started + 1

\* The bookkeeping of a write that raised a stored balance by `delta` in the
\* name of payment `pay` (None: a mutation that belongs to no payment).
Grant(pay, delta) ==
    IF pay = None THEN granted ELSE [granted EXCEPT ![pay] = @ + delta]

\* ------------------------------------------------------- the redis service

\* The service is connected to the store (ping succeeded at construction).
available == TRUE

\* get_credits: HGET, or the memory fallback when the command raises.
get_credits(a, fail) ==
    IF (~available) \/ fail THEN memCredits[a] ELSE credits[a]

\* set_credits: the store after the call (one MULTI/EXEC pipeline), or the
\* memory fallback written instead when the pipeline raises.
set_credits_store(a, n, fail) ==
    IF (~available) \/ fail THEN credits ELSE [credits EXCEPT ![a] = n]

set_credits_memory(a, n, fail) ==
    IF (~available) \/ fail THEN [memCredits EXCEPT ![a] = n] ELSE memCredits

\* ------------------------------------------------------ admin_add_credits

StartAdminAdd(p, a, n) ==
    /\ CanStart(p)
    /\ Begin(p, "admin_add", "aa_get", "done", a, n, None)
    /\ UNCHANGED <<ioVars, credits, memCredits, expected, payVars, celoVars, granted>>

\* old_balance = get_credits(normalized_address)
AdminAddGet(p) ==
    /\ proc[p].pc = "aa_get"
    /\ proc' = [proc EXCEPT ![p].cur = get_credits(proc[p].addr, FALSE),
                            ![p].pc = "aa_set"]
    /\ UNCHANGED <<ioVars, credits, memCredits, started, expected, payVars, celoVars, granted>>

\* set_credits(normalized_address, old_balance + amount); return to caller
AdminAddSet(p) ==
    /\ proc[p].pc = "aa_set"
    /\ credits' = set_credits_store(proc[p].addr, proc[p].cur + proc[p].amt, FALSE)
    /\ memCredits' = set_credits_memory(proc[p].addr, proc[p].cur + proc[p].amt, FALSE)
    /\ expected' = [expected EXCEPT ![proc[p].addr] = @ + proc[p].amt]
    /\ granted' = Grant(proc[p].pay, proc[p].cur + proc[p].amt - credits[proc[p].addr])
    /\ proc' = [proc EXCEPT ![p].pc = proc[p].ret,
                            ![p].cur = proc[p].cur + proc[p].amt,
                            ![p].res = IF proc[p].ret = "done" THEN "ok" ELSE proc[p].res]
    /\ UNCHANGED <<ioVars, started, payVars, celoVars>>

\* ----------------------------------------------- validate_and_spend_credit

\* A guard that lets a spend through on an empty balance.
vs_insufficient_below_zero(current_credits) == current_credits < 0

vs_insufficient(current_credits) == current_credits < 1

StartSpend(p, a) ==
    /\ CanStart(p)
    /\ Begin(p, "spend", "vs_get", "done", a, 1, None)
    /\ UNCHANGED <<ioVars, credits, memCredits, expected, payVars, celoVars, granted>>

\* current_credits = get_credits(...); raise 402 when below 1
VsGet(p) ==
    /\ proc[p].pc = "vs_get"
    /\ LET c == get_credits(proc[p].addr, FALSE) IN
       proc' = [proc EXCEPT ![p].cur = c,
                            ![p].pc = IF vs_insufficient(c) THEN "done" ELSE "vs_set",
                            ![p].res = IF vs_insufficient(c) THEN "402" ELSE proc[p].res]
    /\ UNCHANGED <<ioVars, credits, memCredits, started, expected, payVars, celoVars, granted>>

\* set_credits(normalized_address, current_credits - 1); return new_balance
VsSet(p) ==
    /\ proc[p].pc = "vs_set"
    /\ credits' = set_credits_store(proc[p].addr, proc[p].cur - 1, FALSE)
    /\ memCredits' = set_credits_memory(proc[p].addr, proc[p].cur - 1, FALSE)
    /\ expected' = [expected EXCEPT ![proc[p].addr] = @ - 1]
    /\ proc' = [proc EXCEPT ![p].pc = proc[p].ret,
                            ![p].res = IF proc[p].ret = "done" THEN "ok" ELSE proc[p].res]
    /\ UNCHANGED <<ioVars, started, payVars, celoVars, granted>>

\* ------------------------------------------------------------ refund_credit

StartRefund(p, a) ==
    /\ CanStart(p)
    /\ Begin(p, "refund", "rf_get", "done", a, 1, None)
    /\ UNCHANGED <<ioVars, credits, memCredits, expected, payVars, celoVars, granted>>

\* current_credits = get_credits(normalized_address)
RfGet(p, fail) ==
    /\ proc[p].pc = "rf_get"
    /\ proc' = [proc EXCEPT ![p].cur = get_credits(proc[p].addr, fail),
                            ![p].pc = "rf_set"]
    /\ UNCHANGED <<ioVars, credits, memCredits, started, expected, payVars, celoVars, granted>>

\* set_credits(normalized_address, current_credits + 1); return new_balance.
\* set_credits reports a failed write by returning False, which the wrapper
\* in web3_auth drops: refund_credit returns new_balance either way.
RfSet(p, fail) ==
    /\ proc[p].pc = "rf_set"
    /\ credits' = set_credits_store(proc[p].addr, proc[p].cur + 1, fail)
    /\ memCredits' = set_credits_memory(proc[p].addr, proc[p].cur + 1, fail)
    /\ expected' = [expected EXCEPT ![proc[p].addr] = @ + 1]
    /\ proc' = [proc EXCEPT ![p].pc = proc[p].ret,
                            ![p].cur = proc[p].cur + 1,
                            ![p].res = IF proc[p].ret = "done" THEN "ok" ELSE proc[p].res]
    /\ UNCHANGED <<ioVars, started, payVars, celoVars, granted>>

\* ------------------------------------------------------ POST /credits/use

use_credit_insufficient(current_credits) == current_credits <= 0

StartUseCredit(p, a) ==
    /\ CanStart(p)
    /\ Begin(p, "use_credit", "uc_get", "done", a, 1, None)
    /\ UNCHANGED <<ioVars, credits, memCredits, expected, payVars, celoVars, granted>>

UcGet(p) ==
    /\ proc[p].pc = "uc_get"
    /\ LET c == get_credits(proc[p].addr, FALSE) IN
       proc' = [proc EXCEPT ![p].cur = c,
                            ![p].pc = IF use_credit_insufficient(c) THEN "done" ELSE "uc_set",
                            ![p].res = IF use_credit_insufficient(c) THEN "402" ELSE proc[p].res]
    /\ UNCHANGED <<ioVars, credits, memCredits, started, expected, payVars, celoVars, granted>>

UcSet(p) ==
    /\ proc[p].pc = "uc_set"
    /\ credits' = set_credits_store(proc[p].addr, proc[p].cur - 1, FALSE)
    /\ memCredits' = set_credits_memory(proc[p].addr, proc[p].cur - 1, FALSE)
    /\ expected' = [expected EXCEPT ![proc[p].addr] = @ - 1]
    /\ proc' = [proc EXCEPT ![p].pc = "done", ![p].res = "ok"]
    /\ UNCHANGED <<ioVars, started, payVars, celoVars, granted>>

\* -------------------------------------------------- POST /web3/credits/use

use_credits_insufficient(current_credits, amount) == current_credits < amount

StartWeb3Use(p, a, n) ==
    /\ CanStart(p)
    /\ Begin(p, "web3_use", "w3_get", "done", a, n, None)
    /\ UNCHANGED <<ioVars, credits, memCredits, expected, payVars, celoVars, granted>>

\* The HTTPException(400) raised here is caught by the handler's own
\* `except Exception` and answered as 500.
W3Get(p) ==
    /\ proc[p].pc = "w3_get"
    /\ LET c == get_credits(proc[p].addr, FALSE)
           short == use_credits_insufficient(c, proc[p].amt) IN
       proc' = [proc EXCEPT ![p].cur = c,
                            ![p].pc = IF short THEN "done" ELSE "w3_set",
                            ![p].res = IF short THEN "500" ELSE proc[p].res]
    /\ UNCHANGED <<ioVars, credits, memCredits, started, expected, payVars, celoVars, granted>>

W3Set(p) ==
    /\ proc[p].pc = "w3_set"
    /\ credits' = set_credits_store(proc[p].addr, proc[p].cur - proc[p].amt, FALSE)
    /\ memCredits' = set_credits_memory(proc[p].addr, proc[p].cur - proc[p].amt, FALSE)
    /\ expected' = [expected EXCEPT ![proc[p].addr] = @ - proc[p].amt]
    /\ proc' = [proc EXCEPT ![p].pc = "done", ![p].res = "ok"]
    /\ UNCHANGED <<ioVars, started, payVars, celoVars, granted>>

\* ------------------------------------------------------- POST /replicate/

\* The balance of a wallet when a transformation request arrives is kept in
\* the request's amt (bookkeeping; the handlers never read it).
StartReplicate(p, a) ==
    /\ CanStart(p)
    /\ Begin(p, "replicate", "rp_check", "done", a, credits[a], None)
    /\ UNCHANGED <<ioVars, credits, memCredits, expected, payVars, celoVars, granted>>

\* current_credits = get_credits(address.lower()); 402 when below 1
RpCheck(p) ==
    /\ proc[p].pc = "rp_check"
    /\ LET c == get_credits(proc[p].addr, FALSE) IN
       proc' = [proc EXCEPT ![p].cur = c,
                            ![p].pc = IF c < 1 THEN "done" ELSE "rp_run",
                            ![p].res = IF c < 1 THEN "402" ELSE proc[p].res]
    /\ UNCHANGED <<ioVars, credits, memCredits, started, expected, payVars, celoVars, granted>>

\* replicate.run and the download of its output: 200, or the except branch
RpRun(p, ok) ==
    /\ proc[p].pc = "rp_run"
    /\ proc' = [proc EXCEPT ![p].pc = IF ok THEN "done" ELSE "rp_rf_get",
                            ![p].res = IF ok THEN "200" ELSE proc[p].res]
    /\ UNCHANGED <<ioVars, credits, memCredits, started, expected, payVars, celoVars, granted>>

\* except: current_credits = get_credits(address.lower())
RpRefundGet(p) ==
    /\ proc[p].pc = "rp_rf_get"
    /\ proc' = [proc EXCEPT ![p].cur = get_credits(proc[p].addr, FALSE),
                            ![p].pc = "rp_rf_set"]
    /\ UNCHANGED <<ioVars, credits, memCredits, started, expected, payVars, celoVars, granted>>

\* set_credits(address.lower(), current_credits + 1); raise HTTPException(500)
RpRefundSet(p) ==
    /\ proc[p].pc = "rp_rf_set"
    /\ credits' = set_credits_store(proc[p].addr, proc[p].cur + 1, FALSE)
    /\ memCredits' = set_credits_memory(proc[p].addr, proc[p].cur + 1, FALSE)
    /\ expected' = [expected EXCEPT ![proc[p].addr] = @ + 1]
    /\ proc' = [proc EXCEPT ![p].pc = "done", ![p].res = "500"]
    /\ UNCHANGED <<ioVars, started, payVars, celoVars, granted>>

\* --------------------------------------------------------- POST /comfyui/

\* credit_manager.validate_and_spend_credit(address, "ComfyUI")
StartComfyui(p, a) ==
    /\ CanStart(p)
    /\ Begin(p, "comfyui", "vs_get", "cf_run", a, credits[a], None)
    /\ UNCHANGED <<ioVars, credits, memCredits, expected, payVars, celoVars, granted>>

\* handle_comfyui: 202, or the except branch with refund_credit
CfRun(p, ok) ==
    /\ proc[p].pc = "cf_run"
    /\ proc' = [proc EXCEPT ![p].pc = IF ok THEN "done" ELSE "rf_get",
                            ![p].ret = IF ok THEN proc[p].ret ELSE "cf_raise",
                            ![p].res = IF ok THEN "202" ELSE proc[p].res]
    /\ UNCHANGED <<ioVars, credits, memCredits, started, expected, payVars, celoVars, granted>>

\* raise HTTPException(status_code=500, detail=user_message)
CfRaise(p) ==
    /\ proc[p].pc = "cf_raise"
    /\ proc' = [proc EXCEPT ![p].pc = "done", ![p].res = "500"]
    /\ UNCHANGED <<ioVars, credits, memCredits, started, expected, payVars, celoVars, granted>>

\* --------------------------------------------------------- upload_to_imgbb

\* What one POST to ImgBB can come to: success, a response without success,
\* a timeout, another HTTP error, any other exception.
PostOutcomes == {"ok", "no_success", "timeout", "http_error", "unexpected"}

\* The HTTPException that becomes last_error after a failed attempt.
UploadError(outcome) ==
    CASE outcome = "no_success" -> "500 Failed to upload image to ImgBB"
      [] outcome = "timeout" -> "504 Timeout uploading to ImgBB"
      [] outcome = "http_error" -> "500 Error uploading to ImgBB"
      [] outcome = "unexpected" -> "500 Unexpected error during image upload"

\* A loop that goes on for a third attempt.
imgbb_more_attempts_three(attempts) == attempts < 3

\* while attempts < 2 / if attempts < 2: sleep
imgbb_more_attempts(attempts) == attempts < 2

StartUpload(p) ==
    /\ CanStart(p)
    /\ Begin(p, "upload_to_imgbb", "ib_post", "done", None, 0, None)
    /\ imgbb' = [imgbb EXCEPT ![p] = NoUpload]
    /\ UNCHANGED <<nonces, request, bulk, credits, memCredits, expected, payVars, celoVars, granted>>

\* attempts += 1; client.post; return image_url, or set last_error
IbPost(p, outcome) ==
    /\ proc[p].pc = "ib_post"
    /\ LET n == imgbb[p].attempts + 1 IN
       /\ imgbb' = [imgbb EXCEPT
                      ![p].attempts = n,
                      ![p].posts = Append(@, outcome),
                      ![p].last_error = IF outcome = "ok" THEN @
                                        ELSE UploadError(outcome)]
       /\ proc' = [proc EXCEPT
                     ![p].pc = CASE outcome = "ok" -> "done"
                                 [] imgbb_more_attempts(n) -> "ib_sleep"
                                 [] OTHER -> "ib_raise",
                     ![p].res = IF outcome = "ok" THEN "image_url" ELSE @]
    /\ UNCHANGED <<nonces, request, bulk, credits, memCredits, started, expected, payVars, celoVars, granted>>

\* await asyncio.sleep(1.0); back to the loop condition
IbSleep(p) ==
    /\ proc[p].pc = "ib_sleep"
    /\ imgbb' = [imgbb EXCEPT ![p].sleeps = @ + 1]
    /\ proc' = [proc EXCEPT ![p].pc = IF imgbb_more_attempts(imgbb[p].attempts)
                                      THEN "ib_post" ELSE "ib_raise"]
    /\ UNCHANGED <<nonces, request, bulk, credits, memCredits, started, expected, payVars, celoVars, granted>>

\* raise last_error or HTTPException(500, "Failed to upload image to ImgBB")
IbRaise(p) ==
    /\ proc[p].pc = "ib_raise"
    /\ proc' = [proc EXCEPT
                  ![p].pc = "done",
                  ![p].res = IF imgbb[p].last_error # None THEN imgbb[p].last_error
                             ELSE "500 Failed to upload image to ImgBB"]
    /\ UNCHANGED <<credits, memCredits, started, expected, payVars, celoVars,
                   ioVars, granted>>

\* ------------------------------------------- connect / login / SIWE verify

\* POST /web3/login (and the same user initialisation at the end of
\* verify_siwe and in connect_wallet)
StartLogin(p, a) ==
    /\ CanStart(p)
    /\ Begin(p, "login", "li_get", "done", a, 0, None)
    /\ UNCHANGED <<ioVars, credits, memCredits, expected, payVars, celoVars, granted>>

\* current_credits = get_credits(address); if current_credits == 0: ...
LiGet(p) ==
    /\ proc[p].pc = "li_get"
    /\ LET c == get_credits(proc[p].addr, FALSE) IN
       proc' = [proc EXCEPT ![p].cur = c,
                            ![p].pc = IF c = 0 THEN "li_set" ELSE "li_read"]
    /\ UNCHANGED <<ioVars, credits, memCredits, started, expected, payVars, celoVars, granted>>

\* set_credits(address, 0)  # Ensure the user exists in storage
LiSet(p) ==
    /\ proc[p].pc = "li_set"
    /\ credits' = set_credits_store(proc[p].addr, 0, FALSE)
    /\ memCredits' = set_credits_memory(proc[p].addr, 0, FALSE)
    /\ proc' = [proc EXCEPT ![p].pc = "li_read"]
    /\ UNCHANGED <<ioVars, started, expected, payVars, celoVars, granted>>

\* "credits": get_credits(address) in the response
LiRead(p) ==
    /\ proc[p].pc = "li_read"
    /\ proc' = [proc EXCEPT ![p].cur = get_credits(proc[p].addr, FALSE),
                            ![p].pc = "done",
                            ![p].res = IF proc[p].res = None THEN "ok" ELSE proc[p].res]
    /\ UNCHANGED <<ioVars, credits, memCredits, started, expected, payVars, celoVars, granted>>

\* ---------------------------------------------------------- SIWE nonces

\* GET /web3/auth/nonce: redis_service.store_nonce(nonce, 900)
GetNonce(p, n) ==
    /\ CanStart(p)
    /\ n \notin nonces
    /\ nonces' = nonces \cup {n}
    /\ proc' = [proc EXCEPT ![p] =
                  [IdleProc EXCEPT !.kind = "get_nonce", !.pc = "done",
                                   !.pay = n, !.res = "ok"]]
    /\ started' = started + 1
    /\ UNCHANGED <<imgbb, request, bulk, credits, memCredits, expected, payVars, celoVars, granted>>

\* 900 seconds after it was stored, the store drops a nonce.
ExpireNonce(n) ==
    /\ n \in nonces
    /\ nonces' = nonces \ {n}
    /\ UNCHANGED <<imgbb, request, bulk, credits, memCredits, proc, started, expected, payVars,
                   celoVars, granted>>

\* The kinds of signature of a verify request: a valid ECDSA signature of its
\* address, an ECDSA signature of somebody else, a Base Account signature.
Signatures == {"ecdsa", "ecdsa_other", "base_account"}

\* is_base_account: length > 500 and the 0x...ca11bde0... prefix
is_base_account(sig) == sig = "base_account"

\* verify_siwe_signature
verify_siwe_signature(sig) == is_base_account(sig) \/ sig = "ecdsa"

\* POST /web3/auth/verify with a message that carries nonce n; the kind of
\* the signature is kept in the handler's tier field.
StartVerify(p, a, n, sig) ==
    /\ CanStart(p)
    /\ proc' = [proc EXCEPT ![p] =
                  [IdleProc EXCEPT !.kind = "verify_siwe", !.pc = "vf_nonce",
                                   !.addr = a, !.pay = n, !.tier = sig]]
    /\ started' = started + 1
    /\ UNCHANGED <<ioVars, credits, memCredits, expected, payVars, celoVars, granted>>

\* store_nonce for a Base Account signature, else validate_nonce (422); then
\* the signature (401)
VfNonce(p) ==
    /\ proc[p].pc = "vf_nonce"
    /\ LET n == proc[p].pay
           sig == proc[p].tier
       IN IF is_base_account(sig)
          THEN /\ nonces' = nonces \cup {n}
               /\ proc' = [proc EXCEPT ![p].pc = "li_get"]
          ELSE /\ nonces' = nonces
               /\ proc' = [proc EXCEPT
                    ![p].pc = IF n \in nonces /\ verify_siwe_signature(sig)
                              THEN "vf_consume" ELSE "done",
                    ![p].res = CASE n \notin nonces -> "422"
                                 [] ~verify_siwe_signature(sig) -> "401"
                                 [] OTHER -> @]
    /\ UNCHANGED <<imgbb, request, bulk, credits, memCredits, started, expected, payVars,
                   celoVars, granted>>

\* if not is_base_account: redis_service.consume_nonce(nonce)
VfConsume(p) ==
    /\ proc[p].pc = "vf_consume"
    /\ nonces' = nonces \ {proc[p].pay}
    /\ proc' = [proc EXCEPT ![p].pc = "li_get"]
    /\ UNCHANGED <<imgbb, request, bulk, credits, memCredits, started, expected, payVars,
                   celoVars, granted>>

\* ---------------------------------------------------------- unified wallet

\* validate_address: lower-cased, starts with 0x and is 42 characters long
validate_address(a) == a \in Addr

\* POST /wallet/credits/add: amount <= 0 and a malformed address raise 400,
\* otherwise admin_add_credits(validated_address, amount, ...)
StartWalletAdd(p, a, n) ==
    /\ CanStart(p)
    /\ started' = started + 1
    /\ proc' = [proc EXCEPT ![p] =
         IF n <= 0 \/ ~validate_address(a)
         THEN [IdleProc EXCEPT !.kind = "wallet_add", !.pc = "done", !.addr = a,
                               !.amt = n, !.res = "400"]
         ELSE [IdleProc EXCEPT !.kind = "wallet_add", !.pc = "aa_get",
                               !.ret = "wa_respond", !.addr = a, !.amt = n]]
    /\ UNCHANGED <<ioVars, credits, memCredits, expected, payVars, celoVars, granted>>

\* The response of add_credits reads new_credits, a name the function never
\* binds: NameError, turned into a 500 by the handler's except Exception.
WaRespond(p) ==
    /\ proc[p].pc = "wa_respond"
    /\ proc' = [proc EXCEPT ![p].pc = "done", ![p].res = "500"]
    /\ UNCHANGED <<ioVars, credits, memCredits, started, expected, payVars,
                   celoVars, granted>>

\* POST /wallet/credits/use: amount <= 0 and a malformed address raise 400,
\* otherwise validate_and_spend_credit(validated_address, ...), which raises
\* 402 on a balance below 1 and spends one credit, whatever the amount
StartWalletUse(p, a, n) ==
    /\ CanStart(p)
    /\ started' = started + 1
    /\ proc' = [proc EXCEPT ![p] =
         IF n <= 0 \/ ~validate_address(a)
         THEN [IdleProc EXCEPT !.kind = "wallet_use", !.pc = "done", !.addr = a,
                               !.amt = n, !.res = "400"]
         ELSE [IdleProc EXCEPT !.kind = "wallet_use", !.pc = "vs_get",
                               !.ret = "wu_respond", !.addr = a, !.amt = n]]
    /\ UNCHANGED <<ioVars, credits, memCredits, expected, payVars, celoVars, granted>>

\* The response of use_credits reads the unbound name new_credits as well.
WuRespond(p) ==
    /\ proc[p].pc = "wu_respond"
    /\ proc' = [proc EXCEPT ![p].pc = "done", ![p].res = "500"]
    /\ UNCHANGED <<ioVars, credits, memCredits, started, expected, payVars,
                   celoVars, granted>>

\* ---------------------------------------------------- admin_set_credits

\* old_balance = get_credits(normalized_address)
AdminSetGet(p) ==
    /\ proc[p].pc = "as_get"
    /\ proc' = [proc EXCEPT ![p].cur = get_credits(proc[p].addr, FALSE),
                            ![p].pc = "as_set"]
    /\ UNCHANGED <<ioVars, credits, memCredits, started, expected, payVars, celoVars, granted>>

\* set_credits(normalized_address, amount); return to the caller
AdminSetSet(p) ==
    /\ proc[p].pc = "as_set"
    /\ credits' = set_credits_store(proc[p].addr, proc[p].amt, FALSE)
    /\ memCredits' = set_credits_memory(proc[p].addr, proc[p].amt, FALSE)
    /\ expected' = [expected EXCEPT ![proc[p].addr] = proc[p].amt]
    /\ proc' = [proc EXCEPT ![p].pc = proc[p].ret]
    /\ UNCHANGED <<ioVars, started, payVars, celoVars, granted>>

\* -------------------------------------------------- bulk_credit_operation

\* The operations a caller can pass: address (None: the key is missing),
\* operation ("del" stands for every kind the function does not know) and
\* amount.
BulkOps ==
    [address : Addr \cup {None}, operation : {"add", "set", "get", "del"},
     amount : 1..MaxAmount]

\* An entry of the result list; a get entry carries the balance it read in
\* both balance fields, an error entry carries the operation as given.
BulkEntry(address, operation, old_balance, new_balance, error) ==
    [address |-> address, operation |-> operation, old_balance |-> old_balance,
     new_balance |-> new_balance, error |-> error]

\* The lists of at most MaxBulk operations.
BulkInputs == UNION {[1..n -> BulkOps] : n \in 0..MaxBulk}

\* bulk_credit_operation(operations): results = []
StartBulk(p) ==
    /\ CanStart(p)
    /\ started = 0
    /\ started' = started + 1
    /\ proc' = [proc EXCEPT ![p] = [IdleProc EXCEPT !.kind = "bulk", !.pc = "bk_next"]]
    /\ \E ops \in BulkInputs :
          bulk' = [bulk EXCEPT ![p] = [operations |-> ops, results |-> <<>>]]
    /\ UNCHANGED <<imgbb, nonces, request, credits, memCredits, expected, payVars,
                   celoVars, granted>>

\* A loop that gives up at the first operation that raises.
AfterBulkErrorReturn == "done"

\* except Exception: results.append({... "error": str(e) ...}); the loop
\* goes on with the next operation
AfterBulkError == "bk_next"

\* for op in operations: the dispatch on op's kind; address.lower() raises
\* on a missing address; admin_get_credits and the unknown kind are answered
\* in the same step
BkNext(p) ==
    /\ proc[p].pc = "bk_next"
    /\ LET done == Len(bulk[p].results) = Len(bulk[p].operations)
           op == bulk[p].operations[Len(bulk[p].results) + 1]
           append(e) == [bulk EXCEPT ![p].results = Append(@, e)]
       IN IF done
          THEN /\ proc' = [proc EXCEPT ![p].pc = "done", ![p].res = "ok"]
               /\ bulk' = bulk
          ELSE IF op.operation \notin {"add", "set", "get"}
          THEN /\ bulk' = append(BulkEntry(op.address, op.operation, None, None,
                                           "unknown_operation"))
               /\ proc' = proc
          ELSE IF op.address = None
          THEN /\ bulk' = append(BulkEntry(op.address, op.operation, None, None,
                                           "raised"))
               /\ proc' = [proc EXCEPT ![p].pc = AfterBulkError]
          ELSE IF op.operation = "get"
          THEN /\ bulk' = append(BulkEntry(op.address, "get_credits",
                                           get_credits(op.address, FALSE),
                                           get_credits(op.address, FALSE), None))
               /\ proc' = proc
          ELSE /\ bulk' = bulk
               /\ proc' = [proc EXCEPT
                    ![p].pc = IF op.operation = "add" THEN "aa_get" ELSE "as_get",
                    ![p].ret = "bk_append",
                    ![p].addr = op.address,
                    ![p].amt = op.amount]
    /\ UNCHANGED <<imgbb, nonces, request, credits, memCredits, started, expected,
                   payVars, celoVars, granted>>

\* results.append(result) with the dictionary admin_add_credits or
\* admin_set_credits returned
BkAppend(p) ==
    /\ proc[p].pc = "bk_append"
    /\ LET op == bulk[p].operations[Len(bulk[p].results) + 1]
           e == IF op.operation = "add"
                THEN BulkEntry(proc[p].addr, "add_credits",
                               proc[p].cur - proc[p].amt, proc[p].cur, None)
                ELSE BulkEntry(proc[p].addr, "set_credits",
                               proc[p].cur, proc[p].amt, None)
       IN bulk' = [bulk EXCEPT ![p].results = Append(@, e)]
    /\ proc' = [proc EXCEPT ![p].pc = "bk_next"]
    /\ UNCHANGED <<imgbb, nonces, request, credits, memCredits, started, expected,
                   payVars, celoVars, granted>>

\* ------------------------------------------------------------------ Stripe

\* PRICE_CREDITS of stripe_config, by tier: what create_checkout_session
\* writes into the session's metadata.
StripeCredits(tier) ==
    CASE tier = "starter" -> 1
      [] tier = "pro" -> 12
      [] tier = "unlimited" -> 30

\* The checkout sessions as the provider reports them. cs_3 is a session
\* without metadata that has not been paid.
StripeSession(s) ==
    CASE s = "cs_1" -> [tier |-> "starter", credits |-> StripeCredits("starter"),
                        wallet_address |-> "0xa", customer |-> "cus_1",
                        payment_status |-> "paid"]
      [] s = "cs_2" -> [tier |-> "pro", credits |-> StripeCredits("pro"),
                        wallet_address |-> "0xb", customer |-> None,
                        payment_status |-> "paid"]
      [] s = "cs_3" -> [tier |-> None, credits |-> 0,
                        wallet_address |-> None, customer |-> None,
                        payment_status |-> "unpaid"]

\* f'credited:session:{session.id}'
SessionKey(s) == <<"credited:session", s>>

\* all([tier, credits, wallet_address])
HasMetadata(s) ==
    /\ StripeSession(s).tier # None
    /\ StripeSession(s).credits # 0
    /\ StripeSession(s).wallet_address # None

\* A check that looks the marker up under another key than the one set.
SessionCreditedOtherKey(s) == <<"processed:session", s>> \in markers

\* redis_service.get(session_key) is truthy
SessionCredited(s) == SessionKey(s) \in markers

\* A verified checkout.session.completed event arrives; without the three
\* metadata fields it is skipped before any store command.
StartStripeWebhook(p, s) ==
    /\ CanStart(p)
    /\ started' = started + 1
    /\ IF HasMetadata(s)
       THEN proc' = [proc EXCEPT ![p] =
                [kind |-> "stripe_webhook", pc |-> "sw_check", ret |-> None,
                 addr |-> StripeSession(s).wallet_address,
                 amt |-> StripeSession(s).credits, pay |-> s, cur |-> 0,
                 res |-> None, tier |-> None]]
       ELSE proc' = [proc EXCEPT ![p] =
                [kind |-> "stripe_webhook", pc |-> "done", ret |-> None,
                 addr |-> None, amt |-> 0, pay |-> s, cur |-> 0,
                 res |-> "skipped", tier |-> None]]
    /\ UNCHANGED <<ioVars, credits, memCredits, expected, payVars, celoVars, granted>>

\* if redis_service.get(session_key): return already_credited;
\* otherwise call admin_add_credits(wallet_address, int(credits))
SwCheck(p) ==
    /\ proc[p].pc = "sw_check"
    /\ proc' = IF SessionCredited(proc[p].pay)
               THEN [proc EXCEPT ![p].pc = "done", ![p].res = "already_credited"]
               ELSE [proc EXCEPT ![p].pc = "aa_get", ![p].ret = "sw_mark"]
    /\ UNCHANGED <<ioVars, credits, memCredits, started, expected, payVars, celoVars, granted>>

\* redis_service.set(session_key, '1', ex=86400); then the customer id
SwMark(p) ==
    /\ proc[p].pc = "sw_mark"
    /\ markers' = markers \cup {SessionKey(proc[p].pay)}
    /\ proc' = IF StripeSession(proc[p].pay).customer # None
               THEN [proc EXCEPT ![p].pc = "sw_cust_get"]
               ELSE [proc EXCEPT ![p].pc = "done", ![p].res = "completed"]
    /\ UNCHANGED <<ioVars, credits, memCredits, started, expected, customer, history,
                   celoVars, granted>>

\* existing_customer = get_customer_id_from_address(wallet_address)
SwCustGet(p) ==
    /\ proc[p].pc = "sw_cust_get"
    /\ proc' = IF customer[proc[p].addr] = None
               THEN [proc EXCEPT ![p].pc = "sw_cust_set"]
               ELSE [proc EXCEPT ![p].pc = "done", ![p].res = "completed"]
    /\ UNCHANGED <<ioVars, credits, memCredits, started, expected, payVars, celoVars, granted>>

\* set_customer_id_for_address(wallet_address, session.customer)
SwCustSet(p) ==
    /\ proc[p].pc = "sw_cust_set"
    /\ customer' = [customer EXCEPT ![proc[p].addr] = StripeSession(proc[p].pay).customer]
    /\ proc' = [proc EXCEPT ![p].pc = "done", ![p].res = "completed"]
    /\ UNCHANGED <<ioVars, credits, memCredits, started, expected, markers, history,
                   celoVars, granted>>

\* GET /stripe/session/{session_id}?address=...
StartSessionCheck(p, s, a) ==
    /\ CanStart(p)
    /\ Begin(p, "session_check", "ss_check", None, a, 0, s)
    /\ UNCHANGED <<ioVars, credits, memCredits, expected, payVars, celoVars, granted>>

\* if redis_service.get(credit_key): report the balance; otherwise retrieve
\* the session and, when it is paid, call admin_add_credits(address, credits)
SsCheck(p) ==
    /\ proc[p].pc = "ss_check"
    /\ LET s == proc[p].pay IN
       proc' = IF SessionCredited(s)
               THEN [proc EXCEPT ![p].pc = "ss_read"]
               ELSE IF StripeSession(s).payment_status # "paid"
               THEN [proc EXCEPT ![p].pc = "done",
                                 ![p].res = StripeSession(s).payment_status]
               ELSE IF StripeSession(s).credits = 0
               THEN [proc EXCEPT ![p].pc = "done", ![p].res = "400"]
               ELSE [proc EXCEPT ![p].pc = "aa_get", ![p].ret = "ss_mark",
                                 ![p].amt = StripeSession(s).credits]
    /\ UNCHANGED <<ioVars, credits, memCredits, started, expected, payVars, celoVars, granted>>

\* admin_get_credits(address)["credits"]; "Credits already added"
SsRead(p) ==
    /\ proc[p].pc = "ss_read"
    /\ proc' = [proc EXCEPT ![p].cur = get_credits(proc[p].addr, FALSE),
                            ![p].pc = "done", ![p].res = "already_added"]
    /\ UNCHANGED <<ioVars, credits, memCredits, started, expected, payVars, celoVars, granted>>

\* redis_service.set(credit_key, '1', ex=86400)
SsMark(p) ==
    /\ proc[p].pc = "ss_mark"
    /\ markers' = markers \cup {SessionKey(proc[p].pay)}
    /\ proc' = [proc EXCEPT ![p].pc = "done", ![p].res = "success"]
    /\ UNCHANGED <<ioVars, credits, memCredits, started, expected, customer, history,
                   celoVars, granted>>

\* ----------------------------------------------------- add_payment_history

\* BASE_PAY_HISTORY for payment_type "base_pay", CELO_HISTORY for any other.
HistoryKey(payment_type, a) ==
    IF payment_type = "base_pay" THEN <<"base_pay_history", a>>
                                 ELSE <<"celo_history", a>>

\* "Keep only last 100 transactions"
HistoryLimit == 100

\* Lists keep their newest entries: LTRIM key 0 (limit - 1).
Trim(list, limit) ==
    IF Len(list) <= limit THEN list ELSE SubSeq(list, 1, limit)

\* self.client.lpush(history_key, json.dumps(payment_record))
PhPush(p) ==
    /\ proc[p].pc = "ph_push"
    /\ LET k == HistoryKey(proc[p].kind, proc[p].addr) IN
       history' = [history EXCEPT ![k] = <<proc[p].pay>> \o @]
    /\ proc' = [proc EXCEPT ![p].pc = "ph_trim"]
    /\ UNCHANGED <<ioVars, credits, memCredits, started, expected, markers, customer,
                   celoVars, granted>>

\* self.client.ltrim(history_key, 0, 99); the handler answers success
PhTrim(p) ==
    /\ proc[p].pc = "ph_trim"
    /\ LET k == HistoryKey(proc[p].kind, proc[p].addr) IN
       history' = [history EXCEPT ![k] = Trim(@, HistoryLimit)]
    /\ proc' = [proc EXCEPT ![p].pc = "done", ![p].res = "success"]
    /\ UNCHANGED <<ioVars, credits, memCredits, started, expected, markers, customer,
                   celoVars, granted>>

\* ---------------------------------------------------------------- Base Pay

Tiers == {"starter", "pro", "unlimited"}

\* BASE_PRICING[tier]["credits"]
TierCredits(tier) ==
    CASE tier = "starter" -> 1
      [] tier = "pro" -> 12
      [] tier = "unlimited" -> 30

\* BASE_PRICING[tier]["base_price"], in cents
BasePrice(tier) ==
    CASE tier = "starter" -> 50
      [] tier = "pro" -> 499
      [] tier = "unlimited" -> 999

\* calculate_discounted_price with the 30% Base Pay discount, in cents
\* (round to the cent: 35, 349, 699)
DiscountedPrice(tier) == (BasePrice(tier) * 70 + 50) \div 100

\* validate_payment_amount(tier, "base_pay", amount): within a cent of the
\* discounted or of the base price
validate_payment_amount(tier, amount) ==
    amount \in {DiscountedPrice(tier), BasePrice(tier)}

\* The payment data a Base Pay completion carries.
BasePayment(b) ==
    CASE b = "bp_1" -> [status |-> "completed", amount |-> 35, from |-> "0xa",
                        tier |-> "starter"]
      [] b = "bp_2" -> [status |-> "completed", amount |-> 499, from |-> "0xb",
                        tier |-> "pro"]

BasePayKey(b) == <<"base_pay_processed", b>>

\* redis_service.exists(processed_key)
BasePayProcessed(b) == BasePayKey(b) \in markers

\* POST /base-pay/process-payment: the checks made before any store command
StartBasePay(p, b) ==
    /\ CanStart(p)
    /\ started' = started + 1
    /\ LET d == BasePayment(b)
           base == [kind |-> "base_pay", pc |-> "done", ret |-> None,
                    addr |-> d.from, amt |-> TierCredits(d.tier), pay |-> b,
                    cur |-> 0, res |-> None, tier |-> None] IN
       proc' = [proc EXCEPT ![p] =
                  IF d.tier \notin Tiers THEN [base EXCEPT !.res = "500"]
                  ELSE IF d.status # "completed" THEN [base EXCEPT !.res = d.status]
                  ELSE IF ~validate_payment_amount(d.tier, d.amount)
                  THEN [base EXCEPT !.res = "500"]
                  ELSE [base EXCEPT !.pc = "bp_check"]]
    /\ UNCHANGED <<ioVars, credits, memCredits, expected, payVars, celoVars, granted>>

\* if redis_service.exists(processed_key): already_processed;
\* otherwise admin_add_credits(payer_address.lower(), credits_to_add)
BpCheck(p) ==
    /\ proc[p].pc = "bp_check"
    /\ proc' = IF BasePayProcessed(proc[p].pay)
               THEN [proc EXCEPT ![p].pc = "done", ![p].res = "already_processed"]
               ELSE [proc EXCEPT ![p].pc = "aa_get", ![p].ret = "bp_mark"]
    /\ UNCHANGED <<ioVars, credits, memCredits, started, expected, payVars, celoVars, granted>>

\* redis_service.set(processed_key, "processed", ex=86400); then the history
BpMark(p) ==
    /\ proc[p].pc = "bp_mark"
    /\ markers' = markers \cup {BasePayKey(proc[p].pay)}
    /\ proc' = [proc EXCEPT ![p].pc = "ph_push"]
    /\ UNCHANGED <<ioVars, credits, memCredits, started, expected, customer, history,
                   celoVars, granted>>

\* ------------------------------------------------------- Coinbase Commerce

\* The metadata of a confirmed charge (create_coinbase_charge wrote it).
Charge(c) ==
    CASE c = "ch_1" -> [tier |-> "single", credits |-> 1, wallet_address |-> "0xa"]
      [] c = "ch_2" -> [tier |-> "basic", credits |-> 12, wallet_address |-> "0xb"]

CoinbaseKey(c) == <<"coinbase_processed", c>>

CoinbaseProcessed(c) == CoinbaseKey(c) \in markers

\* A verified charge:confirmed webhook; without wallet address or credits it
\* is answered with an error before any store command.
StartCoinbase(p, c) ==
    /\ CanStart(p)
    /\ started' = started + 1
    /\ LET d == Charge(c)
           base == [kind |-> "coinbase", pc |-> "done", ret |-> None,
                    addr |-> d.wallet_address, amt |-> d.credits, pay |-> c,
                    cur |-> 0, res |-> None, tier |-> None] IN
       proc' = [proc EXCEPT ![p] =
                  IF d.wallet_address = None \/ d.credits = 0
                  THEN [base EXCEPT !.res = "error"]
                  ELSE [base EXCEPT !.pc = "cb_check"]]
    /\ UNCHANGED <<ioVars, credits, memCredits, expected, payVars, celoVars, granted>>

CbCheck(p) ==
    /\ proc[p].pc = "cb_check"
    /\ proc' = IF CoinbaseProcessed(proc[p].pay)
               THEN [proc EXCEPT ![p].pc = "done", ![p].res = "already_processed"]
               ELSE [proc EXCEPT ![p].pc = "cb_incr"]
    /\ UNCHANGED <<ioVars, credits, memCredits, started, expected, payVars, celoVars, granted>>

\* redis_service.add_credits: HINCRBY user:<addr> credits <n>
CbIncr(p) ==
    /\ proc[p].pc = "cb_incr"
    /\ credits' = [credits EXCEPT ![proc[p].addr] = @ + proc[p].amt]
    /\ expected' = [expected EXCEPT ![proc[p].addr] = @ + proc[p].amt]
    /\ granted' = Grant(proc[p].pay, proc[p].amt)
    /\ proc' = [proc EXCEPT ![p].pc = "cb_mark",
                            ![p].cur = credits[proc[p].addr] + proc[p].amt]
    /\ UNCHANGED <<ioVars, memCredits, started, payVars, celoVars>>

\* redis_service.set(processed_key, "processed", ex=86400)
CbMark(p) ==
    /\ proc[p].pc = "cb_mark"
    /\ markers' = markers \cup {CoinbaseKey(proc[p].pay)}
    /\ proc' = [proc EXCEPT ![p].pc = "ph_push"]
    /\ UNCHANGED <<ioVars, credits, memCredits, started, expected, customer, history,
                   celoVars, granted>>

\* ------------------------------------------------------ webhook requests

\* The signature header of a webhook request: absent, not the HMAC of the
\* body under the webhook secret, or verifying.
SignatureHeaders == {"missing", "invalid", "valid"}

StripeEventTypes ==
    {"checkout.session.completed", "payment_intent.succeeded",
     "payment_intent.payment_failed", "customer.subscription.deleted",
     "invoice.paid"}

CoinbaseEventTypes == {"charge:confirmed", "charge:failed"}

\* POST /stripe/webhook or POST /payments/webhook/coinbase arrives.
WebhookArrives(p, kind, sig, etype, id) ==
    /\ CanStart(p)
    /\ \/ kind = "stripe_webhook" /\ etype \in StripeEventTypes /\ id \in Sessions
       \/ kind = "coinbase" /\ etype \in CoinbaseEventTypes /\ id \in Charges
    /\ request' = [request EXCEPT ![p] = [signature |-> sig, type |-> etype]]
    /\ proc' = [proc EXCEPT ![p] =
                  [IdleProc EXCEPT !.kind = kind, !.pc = "wh_verify", !.pay = id]]
    /\ started' = started + 1
    /\ UNCHANGED <<imgbb, nonces, bulk, credits, memCredits, expected, payVars,
                   celoVars, granted>>

\* A handler that takes every signature that is there.
stripe_construct_event_unverified(sig) == sig # "missing"

\* stripe.Webhook.construct_event(body, signature, STRIPE_WEBHOOK_SECRET)
stripe_construct_event(sig) == sig = "valid"

\* The answers of stripe_webhook to the events it does not credit.
StripeEventAnswer(etype) ==
    CASE etype = "payment_intent.succeeded" -> "logged"
      [] etype = "payment_intent.payment_failed" -> "failed"
      [] etype = "customer.subscription.deleted" -> "logged"
      [] OTHER -> "ignored"

\* A handler that credits succeeded payment intents as well.
stripe_credits_event_intent(etype) ==
    etype \in {"checkout.session.completed", "payment_intent.succeeded"}

\* if event.type == 'checkout.session.completed'
stripe_credits_event(etype) == etype = "checkout.session.completed"

\* stripe_webhook: signature header, construct_event, event type, metadata
SwVerify(p) ==
    /\ proc[p].pc = "wh_verify"
    /\ proc[p].kind = "stripe_webhook"
    /\ LET sig == request[p].signature
           etype == request[p].type
           s == proc[p].pay
       IN proc' = [proc EXCEPT ![p] =
            CASE sig = "missing" -> [@ EXCEPT !.pc = "done", !.res = "400"]
              [] ~stripe_construct_event(sig) -> [@ EXCEPT !.pc = "done", !.res = "401"]
              [] ~stripe_credits_event(etype) ->
                    [@ EXCEPT !.pc = "done", !.res = StripeEventAnswer(etype)]
              [] ~HasMetadata(s) -> [@ EXCEPT !.pc = "done", !.res = "skipped"]
              [] OTHER -> [@ EXCEPT !.pc = "sw_check",
                                    !.addr = StripeSession(s).wallet_address,
                                    !.amt = StripeSession(s).credits]]
    /\ UNCHANGED <<ioVars, credits, memCredits, started, expected, payVars,
                   celoVars, granted>>

\* verify_coinbase_webhook_signature: hmac.compare_digest(signature, expected)
verify_coinbase_webhook_signature(sig) == sig = "valid"

\* coinbase_webhook: signature header, signature, event type, metadata; an
\* HTTPException raised inside the handler's try comes out as a 500
CbVerify(p) ==
    /\ proc[p].pc = "wh_verify"
    /\ proc[p].kind = "coinbase"
    /\ LET sig == request[p].signature
           etype == request[p].type
           d == Charge(proc[p].pay)
       IN proc' = [proc EXCEPT ![p] =
            CASE sig = "missing" \/ ~verify_coinbase_webhook_signature(sig) ->
                    [@ EXCEPT !.pc = "done", !.res = "500"]
              [] etype # "charge:confirmed" -> [@ EXCEPT !.pc = "done", !.res = "success"]
              [] d.wallet_address = None \/ d.credits = 0 ->
                    [@ EXCEPT !.pc = "done", !.res = "error"]
              [] OTHER -> [@ EXCEPT !.pc = "cb_check",
                                    !.addr = d.wallet_address,
                                    !.amt = d.credits]]
    /\ UNCHANGED <<ioVars, credits, memCredits, started, expected, payVars,
                   celoVars, granted>>

\* ---------------------------------------------------------- GHIBLIFY token

\* TOKEN_TIER_MAPPING.get(event_tier, event_tier): the mapping is keyed by
\* the backend's tier names and yields the contract's package names.
TOKEN_TIER_MAPPING(event_tier) ==
    CASE event_tier = "starter" -> "starter"
      [] event_tier = "pro" -> "pro"
      [] event_tier = "unlimited" -> "don"
      [] OTHER -> event_tier

\* The token purchases on chain: receipt status, recipient, and the
\* CreditsPurchased event of the payments contract.
TokenTx(t) ==
    CASE t = "tk_1" -> [status |-> 1, to_contract |-> TRUE, buyer |-> "0xa",
                        packageTier |-> "starter", credits |-> 1]
      [] t = "tk_2" -> [status |-> 1, to_contract |-> TRUE, buyer |-> "0xb",
                        packageTier |-> "don", credits |-> 30]

TokenKey(t) == <<"ghiblify_token_processed", t>>

TokenProcessed(t) == TokenKey(t) \in markers

\* POST /ghiblify-token/process-payment with transactionHash, userAddress
\* and tier in the body (tier is one of VALID_TIERS, else 400).
StartToken(p, t, a, tier) ==
    /\ CanStart(p)
    /\ started' = started + 1
    /\ proc' = [proc EXCEPT ![p] =
                  [kind |-> "ghiblify_token", pc |-> "tk_check", ret |-> None,
                   addr |-> a, amt |-> 0, pay |-> t, cur |-> 0, res |-> None,
                   tier |-> tier]]
    /\ UNCHANGED <<ioVars, credits, memCredits, expected, payVars, celoVars, granted>>

\* exists(processed_key), then the receipt and its event are verified:
\* status, recipient, buyer and tier; then admin_add_credits(user, credits)
TkCheck(p) ==
    /\ proc[p].pc = "tk_check"
    /\ LET d == TokenTx(proc[p].pay) IN
       proc' = IF TokenProcessed(proc[p].pay)
               THEN [proc EXCEPT ![p].pc = "done", ![p].res = "already_processed"]
               ELSE IF d.status = 0 \/ ~d.to_contract
               THEN [proc EXCEPT ![p].pc = "done", ![p].res = "400"]
               ELSE IF d.buyer # proc[p].addr
               THEN [proc EXCEPT ![p].pc = "done", ![p].res = "500"]
               ELSE IF TOKEN_TIER_MAPPING(d.packageTier) # proc[p].tier
               THEN [proc EXCEPT ![p].pc = "done", ![p].res = "500"]
               ELSE [proc EXCEPT ![p].pc = "aa_get", ![p].ret = "tk_mark",
                                 ![p].amt = d.credits]
    /\ UNCHANGED <<ioVars, credits, memCredits, started, expected, payVars, celoVars, granted>>

\* redis_service.set(processed_key, "processed", ex=86400)
TkMark(p) ==
    /\ proc[p].pc = "tk_mark"
    /\ markers' = markers \cup {TokenKey(proc[p].pay)}
    /\ proc' = [proc EXCEPT ![p].pc = "ph_push"]
    /\ UNCHANGED <<ioVars, credits, memCredits, started, expected, customer, history,
                   celoVars, granted>>

\* -------------------------------------------------------------------- CELO

\* TIER_MAPPING.get(package_tier, package_tier)
TIER_MAPPING(package_tier) ==
    IF package_tier = "don" THEN "unlimited" ELSE package_tier

\* PACKAGES: tier -> credits (0: not a package)
PACKAGES(tier) ==
    CASE tier = "starter" -> 1
      [] tier = "pro" -> 12
      [] tier = "unlimited" -> 30
      [] OTHER -> 0

\* The chain: per transaction its receipt status, the CreditsPurchased event
\* of its receipt (buyer, packageTier) and its block.
CeloTx(t) ==
    CASE t = "tx_1" -> [status |-> 1, buyer |-> "0xa", packageTier |-> "starter", block |-> 1]
      [] t = "tx_2" -> [status |-> 1, buyer |-> "0xb", packageTier |-> "don", block |-> 2]
      [] t = "tx_3" -> [status |-> 1, buyer |-> "0xa", packageTier |-> "mega", block |-> 3]
      [] t = "tx_4" -> [status |-> 1, buyer |-> "0xa", packageTier |-> "pro", block |-> 4]

\* w3.eth.block_number
CurrentBlock == 4

\* 'Don't process more than 1000 blocks at once'
BlockWindow == 1000

\* mapped_tier in PACKAGES
ValidPackage(t) == PACKAGES(TIER_MAPPING(CeloTx(t).packageTier)) > 0

CeloCreditKey(buyer) == <<"credits", buyer>>

ProcessedKey(t) == <<"processed_tx", t>>

CeloProcessed(t) == ProcessedKey(t) \in markers

\* A pipeline that watches the processed key only.
CeloWatchProcessedOnly(buyer, t) == {ProcessedKey(t)}

\* A pipeline that watches no key.
CeloWatchNothing(buyer, t) == {}

\* pipe.watch(credit_key, processed_key)
CeloWatchKeys(buyer, t) == {CeloCreditKey(buyer), ProcessedKey(t)}

\* 'Keep only last 50 transactions'
CeloHistoryLimit == 50

\* w3.eth.get_logs: the purchase events of blocks from..to, in chain order
RECURSIVE LogsBetween(_, _)
LogsBetween(from, to) ==
    IF from > to THEN <<>>
    ELSE LET here == {t \in CeloTxs : CeloTx(t).block = from} IN
         (IF here = {} THEN <<>> ELSE <<CHOOSE t \in here : TRUE>>)
         \o LogsBetween(from + 1, to)

Max(a, b) == IF a >= b THEN a ELSE b

\* The store client: a handler whose watched key another client wrote gets
\* WatchError from its next EXEC.
Touch(p, keys) ==
    [q \in Procs |->
        IF q # p /\ watching[q] \cap keys # {} THEN TRUE ELSE dirty[q]]

\* GET /celo/check-payment/{tx_hash}
StartCheckPayment(p, t) ==
    /\ CanStart(p)
    /\ Begin(p, "celo_check", "cc_check", "done", None, 0, t)
    /\ UNCHANGED <<ioVars, credits, memCredits, expected, payVars, celoVars, granted>>

\* redis_client.get(processed_key); receipt; purchase events; package tier
CcCheck(p) ==
    /\ proc[p].pc = "cc_check"
    /\ LET t == proc[p].pay
           tx == CeloTx(t)
           out == CASE CeloProcessed(t) -> "processed"
                    [] tx.status = 0 -> "failed"
                    [] ~ValidPackage(t) -> "invalid_package"
                    [] OTHER -> None
       IN proc' = [proc EXCEPT
                     ![p].pc = IF out = None THEN "cw_watch" ELSE "done",
                     ![p].res = out,
                     ![p].addr = IF out = None THEN tx.buyer ELSE proc[p].addr,
                     ![p].amt = IF out = None
                                THEN PACKAGES(TIER_MAPPING(tx.packageTier))
                                ELSE 0]
    /\ UNCHANGED <<ioVars, credits, memCredits, started, expected, payVars, celoVars, granted>>

\* The position of process_pending_events after the log at the head of its
\* logs: the next log, or the update of the last processed block.
AfterLog(rest) == IF rest = <<>> THEN "pe_set" ELSE "pe_log"

\* pipe.watch(credit_key, processed_key)
CwWatch(p) ==
    /\ proc[p].pc = "cw_watch"
    /\ watching' = [watching EXCEPT ![p] = CeloWatchKeys(proc[p].addr, proc[p].pay)]
    /\ dirty' = [dirty EXCEPT ![p] = FALSE]
    /\ proc' = [proc EXCEPT ![p].pc = "cw_recheck"]
    /\ UNCHANGED <<ioVars, credits, memCredits, started, expected, payVars,
                   celoCredits, lastBlock, logs, granted>>

\* if redis_client.get(processed_key): return processed / break
CwRecheck(p) ==
    /\ proc[p].pc = "cw_recheck"
    /\ IF CeloProcessed(proc[p].pay)
       THEN /\ watching' = [watching EXCEPT ![p] = {}]
            /\ dirty' = [dirty EXCEPT ![p] = FALSE]
            /\ IF proc[p].kind = "celo_check"
               THEN /\ proc' = [proc EXCEPT ![p].pc = "done", ![p].res = "processed"]
                    /\ logs' = logs
               ELSE /\ proc' = [proc EXCEPT ![p].pc = AfterLog(Tail(logs[p]))]
                    /\ logs' = [logs EXCEPT ![p] = Tail(@)]
       ELSE /\ proc' = [proc EXCEPT ![p].pc = "cw_get"]
            /\ UNCHANGED <<ioVars, watching, dirty, logs>>
    /\ UNCHANGED <<ioVars, credits, memCredits, started, expected, payVars,
                   celoCredits, lastBlock, granted>>

\* current_credits = int(pipe.get(credit_key) or 0)
CwGet(p) ==
    /\ proc[p].pc = "cw_get"
    /\ proc' = [proc EXCEPT ![p].cur = celoCredits[proc[p].addr], ![p].pc = "cw_exec"]
    /\ UNCHANGED <<ioVars, credits, memCredits, started, expected, payVars, celoVars, granted>>

\* A retry that goes straight back to EXEC with what it read before.
AfterWatchErrorExecAgain == "cw_exec"

\* except redis_client.WatchError: continue (the top of the while loop)
AfterWatchError == "cw_watch"

\* pipe.multi(); set credit_key; set processed_key; lpush; ltrim; execute()
\* WatchError: continue
CwExec(p) ==
    /\ proc[p].pc = "cw_exec"
    /\ IF dirty[p]
       THEN /\ watching' = [watching EXCEPT ![p] = {}]
            /\ dirty' = [dirty EXCEPT ![p] = FALSE]
            /\ proc' = [proc EXCEPT ![p].pc = AfterWatchError]
            /\ UNCHANGED <<ioVars, celoCredits, markers, history, granted, logs>>
       ELSE LET a == proc[p].addr
                t == proc[p].pay
                new_credits == proc[p].cur + proc[p].amt
            IN /\ celoCredits' = [celoCredits EXCEPT ![a] = new_credits]
               /\ markers' = markers \cup {ProcessedKey(t)}
               /\ history' = [history EXCEPT ![<<"celo_history", a>>] =
                                 Trim(<<t>> \o @, CeloHistoryLimit)]
               /\ granted' = Grant(t, new_credits - celoCredits[a])
               /\ watching' = [watching EXCEPT ![p] = {}]
               /\ dirty' = [Touch(p, {CeloCreditKey(a), ProcessedKey(t)})
                               EXCEPT ![p] = FALSE]
               /\ IF proc[p].kind = "celo_check"
                  THEN /\ proc' = [proc EXCEPT ![p].pc = "done", ![p].res = "processed"]
                       /\ logs' = logs
                  ELSE /\ proc' = [proc EXCEPT ![p].pc = AfterLog(Tail(logs[p])),
                                               ![p].cur = 0]
                       /\ logs' = [logs EXCEPT ![p] = Tail(@)]
    /\ UNCHANGED <<ioVars, credits, memCredits, started, expected, customer, lastBlock>>

\* POST /celo/process-pending-events
StartPendingEvents(p) ==
    /\ CanStart(p)
    /\ Begin(p, "celo_pending", "pe_last", "pe_log", None, 0, None)
    /\ UNCHANGED <<ioVars, credits, memCredits, expected, payVars, celoVars, granted>>

\* last_processed_block = int(redis_client.get(last_block_key) or 0); get_logs
PeLast(p) ==
    /\ proc[p].pc = "pe_last"
    /\ LET start_block == Max(lastBlock + 1, CurrentBlock - BlockWindow)
           found == LogsBetween(start_block, CurrentBlock)
       IN /\ logs' = [logs EXCEPT ![p] = found]
          /\ proc' = [proc EXCEPT ![p].pc = AfterLog(found)]
    /\ UNCHANGED <<ioVars, credits, memCredits, started, expected, payVars,
                   celoCredits, watching, dirty, lastBlock, granted>>

\* for log in logs: if redis_client.get(processed_key): continue; package tier
PeLog(p) ==
    /\ proc[p].pc = "pe_log"
    /\ LET t == Head(logs[p])
           tx == CeloTx(t)
       IN IF CeloProcessed(t) \/ ~ValidPackage(t)
          THEN /\ proc' = [proc EXCEPT ![p].pc = AfterLog(Tail(logs[p]))]
               /\ logs' = [logs EXCEPT ![p] = Tail(@)]
          ELSE /\ proc' = [proc EXCEPT
                             ![p].pc = "cw_watch",
                             ![p].pay = t,
                             ![p].addr = tx.buyer,
                             ![p].amt = PACKAGES(TIER_MAPPING(tx.packageTier))]
               /\ logs' = logs
    /\ UNCHANGED <<ioVars, credits, memCredits, started, expected, payVars,
                   celoCredits, watching, dirty, lastBlock, granted>>

\* redis_client.set(last_block_key, current_block); return success
PeSet(p) ==
    /\ proc[p].pc = "pe_set"
    /\ lastBlock' = CurrentBlock
    /\ proc' = [proc EXCEPT ![p].pc = "done", ![p].res = "success"]
    /\ UNCHANGED <<ioVars, credits, memCredits, started, expected, payVars,
                   celoCredits, watching, dirty, logs, granted>>

\* ------------------------------------------------------- expiry and aborts

\* The keys written with ex=86400: every processed marker but CELO's.
ExpiringKeys ==
    {SessionKey(s) : s \in Sessions} \cup {BasePayKey(b) : b \in BasePayments}
    \cup {CoinbaseKey(c) : c \in Charges} \cup {TokenKey(t) : t \in TokenTxs}

\* 24 hours after it was set, the store drops a marker.
Expire(k) ==
    /\ k \in markers \cap ExpiringKeys
    /\ markers' = markers \ {k}
    /\ UNCHANGED <<ioVars, credits, memCredits, proc, started, expected, customer,
                   history, celoVars, granted>>

\* The handling of a request is aborted between two store commands (an
\* exception, a killed worker); the provider sees an error and may retry.
Abort(p) ==
    /\ ~Free(p)
    /\ proc' = [proc EXCEPT ![p].pc = "done", ![p].res = "aborted"]
    /\ UNCHANGED <<ioVars, credits, memCredits, started, expected, payVars, celoVars, granted>>

\* ------------------------------------------------ specification: the ledger

\* Concurrent credit mutations on the ledger, no store failures.
Next ==
    \E p \in Procs :
        \/ \E a \in Addr, n \in 1..MaxAmount : StartAdminAdd(p, a, n)
        \/ \E a \in Addr : StartSpend(p, a)
        \/ \E a \in Addr : StartRefund(p, a)
        \/ \E a \in Addr : StartUseCredit(p, a)
        \/ \E a \in Addr, n \in 1..MaxAmount : StartWeb3Use(p, a, n)
        \/ AdminAddGet(p)
        \/ AdminAddSet(p)
        \/ VsGet(p)
        \/ VsSet(p)
        \/ RfGet(p, FALSE)
        \/ RfSet(p, FALSE)
        \/ UcGet(p)
        \/ UcSet(p)
        \/ W3Get(p)
        \/ W3Set(p)

Spec == Init /\ [][Next]_vars

\* ------------------------------------------------- specification: Stripe

\* Concurrent deliveries of the checkout.session.completed webhook and calls
\* of GET /stripe/session/{id}; no failure, no expiry.
StripeNext ==
    \E p \in Procs :
        \/ \E s \in Sessions : StartStripeWebhook(p, s)
        \/ \E s \in Sessions, a \in Addr : StartSessionCheck(p, s, a)
        \/ SwCheck(p)
        \/ AdminAddGet(p)
        \/ AdminAddSet(p)
        \/ SwMark(p)
        \/ SwCustGet(p)
        \/ SwCustSet(p)
        \/ SsCheck(p)
        \/ SsRead(p)
        \/ SsMark(p)

SpecStripe == Init /\ [][StripeNext]_vars

\* --------------------------- specification: payments, one request at a time

\* Deliveries and requests of the four rails that mark payments with an
\* expiring key, each handled to its end before the next one starts.
SeqPayNext ==
    \E p \in SeqProcs :
        \/ \E s \in Sessions : StartStripeWebhook(p, s)
        \/ \E s \in Sessions, a \in Addr : StartSessionCheck(p, s, a)
        \/ \E b \in BasePayments : StartBasePay(p, b)
        \/ \E c \in Charges : StartCoinbase(p, c)
        \/ \E t \in TokenTxs, a \in Addr, tier \in Tiers : StartToken(p, t, a, tier)
        \/ SwCheck(p)
        \/ AdminAddGet(p)
        \/ AdminAddSet(p)
        \/ SwMark(p)
        \/ SwCustGet(p)
        \/ SwCustSet(p)
        \/ SsCheck(p)
        \/ SsRead(p)
        \/ SsMark(p)
        \/ BpCheck(p)
        \/ BpMark(p)
        \/ CbCheck(p)
        \/ CbIncr(p)
        \/ CbMark(p)
        \/ TkCheck(p)
        \/ TkMark(p)
        \/ PhPush(p)
        \/ PhTrim(p)

SpecSeqPay == Init /\ [][SeqPayNext]_vars

\* The same, with markers expiring.
ExpiryNext ==
    \/ SeqPayNext
    \/ \E k \in ExpiringKeys : Expire(k)

SpecExpiry == Init /\ [][ExpiryNext]_vars

\* The same (no expiry), with handlers aborted between store commands.
RetryNext ==
    \/ SeqPayNext
    \/ \E p \in SeqProcs : Abort(p)

SpecRetry == Init /\ [][RetryNext]_vars

\* ================================================================= claims

\* --------------------------------------------------- specification: CELO

\* Concurrent check-payment requests and pending-event runs.
CeloNext ==
    \/ \E p \in Procs, t \in CeloTxs : StartCheckPayment(p, t)
    \/ \E p \in Procs : StartPendingEvents(p)
    \/ \E p \in Procs : CcCheck(p)
    \/ \E p \in Procs : CwWatch(p)
    \/ \E p \in Procs : CwRecheck(p)
    \/ \E p \in Procs : CwGet(p)
    \/ \E p \in Procs : CwExec(p)
    \/ \E p \in Procs : PeLast(p)
    \/ \E p \in Procs : PeLog(p)
    \/ \E p \in Procs : PeSet(p)

SpecCelo == Init /\ [][CeloNext]_vars

\* Every handler in flight keeps being run, and requests stop arriving.
SpecCeloFair ==
    /\ Init
    /\ [][CeloNext]_vars
    /\ \A p \in Procs :
         WF_vars(CcCheck(p) \/ CwWatch(p) \/ CwRecheck(p) \/ CwGet(p) \/ CwExec(p)
                 \/ PeLast(p) \/ PeLog(p) \/ PeSet(p))

\* ------------------------------- specification: refunds, the store failing

\* Additions, spends and refunds, one request at a time; a store command
\* inside refund_credit may raise.
RefundNext ==
    \/ \E p \in SeqProcs, a \in Addr, n \in 1..MaxAmount : StartAdminAdd(p, a, n)
    \/ \E p \in SeqProcs, a \in Addr : StartSpend(p, a)
    \/ \E p \in SeqProcs, a \in Addr : StartRefund(p, a)
    \/ \E p \in SeqProcs : AdminAddGet(p)
    \/ \E p \in SeqProcs : AdminAddSet(p)
    \/ \E p \in SeqProcs : VsGet(p)
    \/ \E p \in SeqProcs : VsSet(p)
    \/ \E p \in SeqProcs, fail \in BOOLEAN : RfGet(p, fail)
    \/ \E p \in SeqProcs, fail \in BOOLEAN : RfSet(p, fail)

SpecRefund == Init /\ [][RefundNext]_vars

\* ------------------------------------- specification: image transformations

\* Additions and transformation requests, one request at a time.
ImageNext ==
    \/ \E p \in SeqProcs, a \in Addr, n \in 1..MaxAmount : StartAdminAdd(p, a, n)
    \/ \E p \in SeqProcs, a \in Addr : StartReplicate(p, a)
    \/ \E p \in SeqProcs, a \in Addr : StartComfyui(p, a)
    \/ \E p \in SeqProcs : AdminAddGet(p)
    \/ \E p \in SeqProcs : AdminAddSet(p)
    \/ \E p \in SeqProcs : RpCheck(p)
    \/ \E p \in SeqProcs, ok \in BOOLEAN : RpRun(p, ok)
    \/ \E p \in SeqProcs : RpRefundGet(p)
    \/ \E p \in SeqProcs : RpRefundSet(p)
    \/ \E p \in SeqProcs : VsGet(p)
    \/ \E p \in SeqProcs : VsSet(p)
    \/ \E p \in SeqProcs, ok \in BOOLEAN : CfRun(p, ok)
    \/ \E p \in SeqProcs : RfGet(p, FALSE)
    \/ \E p \in SeqProcs : RfSet(p, FALSE)
    \/ \E p \in SeqProcs : CfRaise(p)

SpecImage == Init /\ [][ImageNext]_vars

\* ------------------------------------------- specification: ImgBB uploads

UploadStep ==
    \/ \E p \in SeqProcs, outcome \in PostOutcomes : IbPost(p, outcome)
    \/ \E p \in SeqProcs : IbSleep(p)
    \/ \E p \in SeqProcs : IbRaise(p)

UploadNext ==
    \/ \E p \in SeqProcs : StartUpload(p)
    \/ UploadStep

\* An upload that was started goes on: the event loop runs the coroutine.
SpecUpload == Init /\ [][UploadNext]_vars /\ WF_vars(UploadStep)

\* --------------------------------------- specification: logins and credits

\* Logins concurrent with additions of credits.
LoginNext ==
    \/ \E p \in Procs, a \in Addr : StartLogin(p, a)
    \/ \E p \in Procs, a \in Addr, n \in 1..MaxAmount : StartAdminAdd(p, a, n)
    \/ \E p \in Procs : LiGet(p)
    \/ \E p \in Procs : LiSet(p)
    \/ \E p \in Procs : LiRead(p)
    \/ \E p \in Procs : AdminAddGet(p)
    \/ \E p \in Procs : AdminAddSet(p)

SpecLogin == Init /\ [][LoginNext]_vars

\* ------------------------------------------- specification: SIWE verify

\* Nonce requests and concurrent verify requests.
VerifyNext ==
    \/ \E p \in Procs, n \in Nonces : GetNonce(p, n)
    \/ \E n \in Nonces : ExpireNonce(n)
    \/ \E p \in Procs, a \in Addr, n \in Nonces, sig \in Signatures :
          StartVerify(p, a, n, sig)
    \/ \E p \in Procs : VfNonce(p)
    \/ \E p \in Procs : VfConsume(p)
    \/ \E p \in Procs : LiGet(p)
    \/ \E p \in Procs : LiSet(p)
    \/ \E p \in Procs : LiRead(p)

SpecVerify == Init /\ [][VerifyNext]_vars

\* ---------------------------------------- specification: webhook requests

\* Webhook requests with any signature header and event type, one at a time.
WebhookNext ==
    \/ \E p \in SeqProcs, kind \in {"stripe_webhook", "coinbase"},
          sig \in SignatureHeaders,
          etype \in StripeEventTypes \cup CoinbaseEventTypes,
          id \in Sessions \cup Charges : WebhookArrives(p, kind, sig, etype, id)
    \/ \E p \in SeqProcs : SwVerify(p)
    \/ \E p \in SeqProcs : SwCheck(p)
    \/ \E p \in SeqProcs : AdminAddGet(p)
    \/ \E p \in SeqProcs : AdminAddSet(p)
    \/ \E p \in SeqProcs : SwMark(p)
    \/ \E p \in SeqProcs : SwCustGet(p)
    \/ \E p \in SeqProcs : SwCustSet(p)
    \/ \E p \in SeqProcs : CbVerify(p)
    \/ \E p \in SeqProcs : CbCheck(p)
    \/ \E p \in SeqProcs : CbIncr(p)
    \/ \E p \in SeqProcs : CbMark(p)
    \/ \E p \in SeqProcs : PhPush(p)
    \/ \E p \in SeqProcs : PhTrim(p)

SpecWebhook == Init /\ [][WebhookNext]_vars

\* ------------------------------------------- specification: unified wallet

\* Calls of /wallet/credits/add and /wallet/credits/use, one at a time.
WalletNext ==
    \/ \E p \in SeqProcs, a \in Addr \cup {"0x"}, n \in 0..MaxAmount :
          StartWalletAdd(p, a, n)
    \/ \E p \in SeqProcs, a \in Addr \cup {"0x"}, n \in 0..MaxAmount :
          StartWalletUse(p, a, n)
    \/ \E p \in SeqProcs : AdminAddGet(p)
    \/ \E p \in SeqProcs : AdminAddSet(p)
    \/ \E p \in SeqProcs : WaRespond(p)
    \/ \E p \in SeqProcs : VsGet(p)
    \/ \E p \in SeqProcs : VsSet(p)
    \/ \E p \in SeqProcs : WuRespond(p)

SpecWallet == Init /\ [][WalletNext]_vars

\* ----------------------------------- specification: bulk_credit_operation

\* One call of bulk_credit_operation on the initial store.
BulkNext ==
    \/ \E p \in SeqProcs : StartBulk(p)
    \/ \E p \in SeqProcs : BkNext(p)
    \/ \E p \in SeqProcs : AdminAddGet(p)
    \/ \E p \in SeqProcs : AdminAddSet(p)
    \/ \E p \in SeqProcs : AdminSetGet(p)
    \/ \E p \in SeqProcs : AdminSetSet(p)
    \/ \E p \in SeqProcs : BkAppend(p)

SpecBulk == Init /\ [][BulkNext]_vars

\* ---- C1 (as claimed; refuted by the code)
\* Stripe at-most-once crediting under concurrency: over every interleaving
\* of webhook deliveries and session checks for a session id, the balances
\* are raised by the session's credits at most once.
C1_StripeAtMostOnce ==
    \A s \in Sessions : granted[s] <= StripeSession(s).credits

\* ---- C2 (as claimed; refuted by the code)
\* No lost updates on the credit ledger: once every concurrent credit
\* mutation on an address has returned, the stored balance equals the
\* initial balance plus the added and refunded amounts minus the spends.
C2_NoLostUpdates ==
    Quiet => \A a \in Addr : credits[a] = expected[a]

\* ---- C4
\* Spend never goes negative: every stored balance is >= 0 in every state,
\* and a spend that reads a balance lower than the amount it asks for is
\* rejected and writes nothing.
SpendKinds == {"spend", "use_credit", "web3_use"}

SpendGetPcs == {"vs_get", "uc_get", "w3_get"}

RejectedSpendKeepsBalance ==
    \A p \in Procs :
        (/\ proc[p].kind \in SpendKinds
         /\ proc[p].pc \in SpendGetPcs
         /\ proc'[p] # proc[p]
         /\ credits[proc[p].addr] < proc[p].amt)
        => (/\ proc'[p].pc = "done"
            /\ proc'[p].res \in {"402", "500"}
            /\ credits' = credits)

C4_SpendNeverNegative ==
    /\ [](\A a \in Addr : credits[a] >= 0)
    /\ [][RejectedSpendKeepsBalance]_vars

\* A balance was spent down to zero and a further spend on it was rejected.
C4_Witness ==
    \E p, q \in Procs :
        /\ p # q
        /\ proc[p].kind \in SpendKinds /\ proc[p].pc = "done" /\ proc[p].res = "ok"
        /\ proc[q].kind \in SpendKinds /\ proc[q].pc = "done"
        /\ proc[q].res \in {"402", "500"}
        /\ proc[q].addr = proc[p].addr
        /\ credits[proc[p].addr] = 0

\* The credits a payment is worth.
PaymentCredits(id) ==
    CASE id \in Sessions -> StripeSession(id).credits
      [] id \in BasePayments -> TierCredits(BasePayment(id).tier)
      [] id \in Charges -> Charge(id).credits
      [] id \in TokenTxs -> TokenTx(id).credits

\* ---- C5
\* Sequential idempotency: when a Stripe session, Base Pay payment or
\* Coinbase charge is processed again while its processed marker is present,
\* the handler writes no balance, no marker and no history, and answers
\* already credited / already processed.
CheckPcs == {"sw_check", "ss_check", "bp_check", "cb_check"}

MarkerOf(r) ==
    CASE r.kind \in {"stripe_webhook", "session_check"} -> SessionKey(r.pay)
      [] r.kind = "base_pay" -> BasePayKey(r.pay)
      [] r.kind = "coinbase" -> CoinbaseKey(r.pay)

StoreUntouched ==
    /\ credits' = credits
    /\ memCredits' = memCredits
    /\ celoCredits' = celoCredits
    /\ history' = history
    /\ markers' = markers

ReprocessingStep ==
    \A p \in Procs :
        /\ (/\ proc[p].pc \in CheckPcs
            /\ proc'[p] # proc[p]
            /\ MarkerOf(proc[p]) \in markers)
           => /\ StoreUntouched
              /\ \/ /\ proc'[p].pc = "done"
                    /\ proc'[p].res \in {"already_credited", "already_processed"}
                 \/ /\ proc[p].kind = "session_check"
                    /\ proc'[p].pc = "ss_read"
        /\ (proc[p].pc = "ss_read" /\ proc'[p] # proc[p])
           => /\ StoreUntouched
              /\ proc'[p].pc = "done"
              /\ proc'[p].res = "already_added"

C5_SequentialIdempotency == [][ReprocessingStep]_vars

\* A payment that was credited once is delivered again and answered as
\* already processed, with the balance still the payment's credits.
C5_Witness ==
    \E p \in Procs :
        /\ proc[p].pc = "done"
        /\ proc[p].kind \in {"stripe_webhook", "session_check", "base_pay", "coinbase"}
        /\ proc[p].res \in {"already_credited", "already_processed", "already_added"}
        /\ MarkerOf(proc[p]) \in markers
        /\ granted[proc[p].pay] = PaymentCredits(proc[p].pay)
        /\ credits[proc[p].addr] = PaymentCredits(proc[p].pay)

\* ---- C6 (as claimed; refuted by the code)
\* At-most-once crediting over the whole execution: a Stripe session id, a
\* Coinbase charge id or a GHIBLIFY token transaction hash raises the
\* balances by its credits at most once, however late a repeated delivery
\* arrives, also after the processed marker has expired.
C6_AtMostOnceEver ==
    \A id \in Sessions \cup Charges \cup TokenTxs :
        granted[id] <= PaymentCredits(id)

\* ---- C7 (as claimed; refuted by the code)
\* No double credit on retry after partial failure: when the handling of a
\* Stripe webhook or of a Base Pay payment is aborted between two store
\* commands and the payment is delivered again, the balances are raised by
\* the payment's credits at most once over both attempts.
C7_NoDoubleCreditOnRetry ==
    \A id \in Sessions \cup BasePayments :
        granted[id] <= PaymentCredits(id)

\* ---- C3
\* CELO at-most-once crediting: over every interleaving of concurrent
\* check_payment_status calls and process_pending_events runs, the buyer's
\* CELO credit key is raised by the package's credits at most once per
\* transaction hash, and a handler that is through with a purchase without
\* crediting it has seen it processed: a finished check-payment of a valid
\* purchase answers processed with the processed key present, and a log that
\* process_pending_events leaves behind is, when its package is valid, marked
\* processed.
CeloCreditedAtMostOnce ==
    \A t \in CeloTxs :
        /\ granted[t] <= PACKAGES(TIER_MAPPING(CeloTx(t).packageTier))
        /\ granted[t] > 0 => CeloProcessed(t)

CheckPaymentSeesProcessed ==
    \A p \in Procs :
        (/\ proc[p].kind = "celo_check"
         /\ proc[p].pc = "done"
         /\ ValidPackage(proc[p].pay))
        => (proc[p].res = "processed" /\ CeloProcessed(proc[p].pay))

PendingLogLeftProcessed ==
    \A p \in Procs :
        (/\ proc[p].kind = "celo_pending"
         /\ logs[p] # <<>>
         /\ logs'[p] = Tail(logs[p])
         /\ ValidPackage(Head(logs[p])))
        => ProcessedKey(Head(logs[p])) \in markers'

CeloPurchaseRaisesBalance ==
    \A t \in CeloTxs :
        (~CeloProcessed(t) /\ ProcessedKey(t) \in markers')
        => LET b == CeloTx(t).buyer
               c == PACKAGES(TIER_MAPPING(CeloTx(t).packageTier))
           IN get_credits(b, FALSE)' = get_credits(b, FALSE) + c

C9_OneBalanceAcrossRails == [][CeloPurchaseRaisesBalance]_vars

\* ---- C8 (as claimed; refuted by the code)
\* Refund is safe under partial failure: refund_credit never raises to its
\* caller, also when a store command inside it fails, and when it has
\* returned balance n and nothing else touched the address since, the next
\* get_credits for the address returns n.
C8_RefundSafe ==
    \A p \in Procs :
        (proc[p].kind = "refund" /\ proc[p].pc = "done")
        => /\ proc[p].res = "ok"
           /\ \A fail \in BOOLEAN : get_credits(proc[p].addr, fail) = proc[p].cur

\* ---- C10 (as claimed; refuted by the code)
\* One credit per transformation: a request to POST /replicate/ or POST
\* /comfyui/ that is answered successfully leaves the requester's balance
\* exactly 1 lower than it was when the request arrived, and a request from
\* an address with balance 0 is answered 402 with the balance unchanged.
C10_OneCreditPerTransformation ==
    \A p \in Procs :
        (proc[p].kind \in {"replicate", "comfyui"} /\ proc[p].pc = "done")
        => /\ proc[p].res \in {"200", "202"}
                => credits[proc[p].addr] = proc[p].amt - 1
           /\ proc[p].amt = 0
                => (proc[p].res = "402" /\ credits[proc[p].addr] = 0)

\* ---- C11
\* Bounded retry of the ImgBB upload: upload_to_imgbb makes at most two
\* POSTs, sleeps only once and only between a failed first POST and the
\* second, makes no POST after a successful one and then returns its URL,
\* and after two failed POSTs it ends by raising the error of the second.
UploadBounded ==
    \A p \in Procs :
        LET u == imgbb[p] IN
        proc[p].kind = "upload_to_imgbb" =>
            /\ u.attempts <= 2
            /\ Len(u.posts) = u.attempts
            /\ \A i \in 1..(Len(u.posts) - 1) : u.posts[i] # "ok"
            /\ u.sleeps <= 1
            /\ u.sleeps = 1 => (u.attempts >= 1 /\ u.posts[1] # "ok")
            /\ u.attempts = 2 => u.sleeps = 1
            /\ proc[p].pc = "done" =>
                 \/ /\ u.posts[u.attempts] = "ok"
                    /\ proc[p].res = "image_url"
                 \/ /\ u.attempts = 2
                    /\ u.posts[2] # "ok"
                    /\ proc[p].res = UploadError(u.posts[2])

UploadRunning ==
    \E p \in Procs : proc[p].kind = "upload_to_imgbb" /\ proc[p].pc # "done"

C11_BoundedUploadRetry ==
    /\ []UploadBounded
    /\ UploadRunning ~> ~UploadRunning

\* A first POST timed out, one sleep, a second POST got a response without
\* success, and the upload raised the second error.
C11_Witness ==
    \E p \in Procs :
        /\ proc[p].kind = "upload_to_imgbb" /\ proc[p].pc = "done"
        /\ imgbb[p].posts = <<"timeout", "no_success">>
        /\ imgbb[p].sleeps = 1
        /\ proc[p].res = "500 Failed to upload image to ImgBB"

\* ---- C12
\* CELO crediting is all-or-nothing: the credit increase, the processed
\* marker and the history entry of a transaction hash are committed together,
\* so in every reachable state a hash is marked processed if and only if its
\* credits are in the buyer's CELO credit key and its entry is in the buyer's
\* history: each credit key holds exactly the credits of the buyer's
\* processed purchases.
RECURSIVE CeloCreditsOf(_)
CeloCreditsOf(txs) ==
    IF txs = {} THEN 0
    ELSE LET t == CHOOSE x \in txs : TRUE IN
         PACKAGES(TIER_MAPPING(CeloTx(t).packageTier)) + CeloCreditsOf(txs \ {t})

CeloLedgerMatchesMarkers ==
    /\ \A b \in Addr :
         celoCredits[b] =
            CeloCreditsOf({t \in CeloTxs : CeloProcessed(t) /\ CeloTx(t).buyer = b})
    /\ \A t \in CeloTxs :
         LET c == PACKAGES(TIER_MAPPING(CeloTx(t).packageTier)) IN
         /\ CeloProcessed(t) => (ValidPackage(t) /\ granted[t] = c)
         /\ ~CeloProcessed(t) => granted[t] = 0

\* The step that changes one of the three changes all three.
CeloCommitsTogether ==
    \A t \in CeloTxs :
        LET b == CeloTx(t).buyer
            c == PACKAGES(TIER_MAPPING(CeloTx(t).packageTier))
            h == history[<<"celo_history", b>>]
            committed == /\ ~CeloProcessed(t)
                         /\ ProcessedKey(t) \in markers'
                         /\ celoCredits'[b] = celoCredits[b] + c
                         /\ history'[<<"celo_history", b>>] = <<t>> \o h
        IN /\ (~CeloProcessed(t) /\ ProcessedKey(t) \in markers') => committed
           /\ (granted'[t] # granted[t]) => committed
           /\ (CeloProcessed(t) => ProcessedKey(t) \in markers')

C12_CeloAllOrNothing ==
    /\ []CeloLedgerMatchesMarkers
    /\ [][CeloCommitsTogether]_vars

\* A handler read the credit key for one purchase of a buyer, then another
\* purchase of the same buyer was committed: the handler's EXEC is about to
\* fail instead of overwriting the other purchase's credits.
C12_Witness ==
    \E p \in Procs :
        /\ proc[p].pc = "cw_exec" /\ dirty[p]
        /\ proc[p].pay = "tx_4" /\ proc[p].cur = 0
        /\ CeloProcessed("tx_1") /\ ~CeloProcessed("tx_4")
        /\ celoCredits["0xa"] = 1
        /\ history[<<"celo_history", "0xa">>] = <<"tx_1">>

\* ---- C13
\* The CELO watch/retry loop terminates: when the conflicting writers of the
\* watched keys stop, every run of the crediting loop ends, and it ends with
\* its purchase marked processed, either by its own single commit or by
\* having seen the marker; every EXEC, also the one after a watch conflict,
\* comes after a fresh WATCH, a fresh read of the processed marker and a
\* fresh read of the credit key.
LoopPcs == {"cw_watch", "cw_recheck", "cw_get", "cw_exec"}

LoopEndsProcessed ==
    \A p \in Procs :
        (proc[p].pc \in LoopPcs /\ proc'[p].pc \notin LoopPcs)
        => LET t == proc[p].pay
               c == proc[p].amt
           IN /\ ProcessedKey(t) \in markers'
              /\ \/ /\ proc[p].pc = "cw_exec"
                    /\ ~CeloProcessed(t)
                    /\ granted'[t] = c
                    /\ celoCredits'[proc[p].addr] = celoCredits[proc[p].addr] + c
                 \/ /\ proc[p].pc = "cw_recheck"
                    /\ CeloProcessed(t)
                    /\ UNCHANGED <<celoCredits, markers, history, granted>>

RereadsBeforeExec ==
    \A p \in Procs :
        /\ (proc[p].pc = "cw_exec" /\ proc'[p] # proc[p] /\ dirty[p])
           => (proc'[p].pc = "cw_watch" /\ UNCHANGED <<celoCredits, markers, history>>)
        /\ (proc'[p].pc = "cw_exec" /\ proc[p].pc # "cw_exec")
           => /\ proc[p].pc = "cw_get"
              /\ proc'[p].cur = celoCredits[proc[p].addr]
              /\ ~dirty[p] => ~CeloProcessed(proc[p].pay)
        /\ (proc'[p].pc = "cw_get" /\ proc[p].pc # "cw_get")
           => (proc[p].pc = "cw_recheck" /\ ~CeloProcessed(proc[p].pay))
        /\ (proc'[p].pc = "cw_recheck" /\ proc[p].pc # "cw_recheck")
           => (proc[p].pc = "cw_watch" /\ watching'[p] # {} /\ ~dirty'[p])

LoginStepKeepsBalance ==
    \A p \in Procs :
        (proc[p].kind = "login" /\ proc'[p] # proc[p])
        => \A a \in Addr : credits'[a] >= credits[a]

C14_ConnectNeverCostsCredits == [][LoginStepKeepsBalance]_vars

\* ---- C15 (as claimed; refuted by the code)
\* A SIWE nonce is single-use: of the verify requests that carry one nonce,
\* with an ECDSA or with a Base Account signature, at most one returns
\* success, and a request whose nonce is not in the store (never issued, or
\* expired) when the handler looks at it is answered 422.
AtMostOneVerifySucceeds ==
    \A p, q \in Procs :
        (/\ p # q
         /\ proc[p].kind = "verify_siwe" /\ proc[q].kind = "verify_siwe"
         /\ proc[p].pc = "done" /\ proc[q].pc = "done"
         /\ proc[p].pay = proc[q].pay)
        => ~(proc[p].res = "ok" /\ proc[q].res = "ok")

UnknownNonceRejected ==
    \A p \in Procs :
        (/\ proc[p].pc = "vf_nonce"
         /\ proc'[p] # proc[p]
         /\ proc[p].pay \notin nonces)
        => (proc'[p].pc = "done" /\ proc'[p].res = "422")

C15_NonceSingleUse ==
    /\ []AtMostOneVerifySucceeds
    /\ [][UnknownNonceRejected]_vars

\* ---- C16
\* Unauthenticated webhooks change nothing: a Stripe or Coinbase webhook
\* request whose signature header is missing or does not verify is answered
\* with an error status, and no step of its handling changes a credit
\* balance, a processed marker, a customer mapping or a payment history.
WebhookKinds == {"stripe_webhook", "coinbase"}

Unauthenticated(p) ==
    /\ proc[p].kind \in WebhookKinds
    /\ proc[p].pc # "idle"
    /\ request[p].signature \in {"missing", "invalid"}

UnauthenticatedAnswer ==
    \A p \in Procs :
        Unauthenticated(p) =>
            /\ proc[p].pc \in {"wh_verify", "done"}
            /\ proc[p].pc = "done" =>
                 proc[p].res = CASE proc[p].kind = "coinbase" -> "500"
                                 [] request[p].signature = "missing" -> "400"
                                 [] OTHER -> "401"

UnauthenticatedStep ==
    \A p \in Procs :
        (Unauthenticated(p) /\ proc'[p] # proc[p] /\ proc[p].pc # "done")
        => UNCHANGED <<credits, memCredits, celoCredits, markers, customer,
                       history, granted>>

C16_UnauthenticatedWebhooks ==
    /\ []UnauthenticatedAnswer
    /\ [][UnauthenticatedStep]_vars

\* After a purchase was credited, a webhook with a signature that does not
\* verify was answered 401 and the store is as the purchase left it.
C16_Witness ==
    \E p \in Procs :
        /\ proc[p].kind = "stripe_webhook" /\ proc[p].pc = "done"
        /\ request[p].signature = "invalid"
        /\ request[p].type = "checkout.session.completed"
        /\ proc[p].pay = "cs_2" /\ proc[p].res = "401"
        /\ credits["0xa"] = 1 /\ credits["0xb"] = 0
        /\ markers = {SessionKey("cs_1")}

\* ---- C17
\* Only completed checkouts credit: a step of a verified Stripe event changes
\* a credit balance or a processed marker only if the event's type is
\* checkout.session.completed and its metadata has tier, credits and
\* wallet_address; every other verified event is answered with one of the
\* status-200 bodies (logged, failed, ignored, skipped) straight after the
\* verification, and its private record never reaches a crediting step.
VerifiedStripeEvent(p) ==
    /\ proc[p].kind = "stripe_webhook"
    /\ proc[p].pc # "idle"
    /\ request[p].signature = "valid"

CreditableStripeEvent(p) ==
    /\ request[p].type = "checkout.session.completed"
    /\ HasMetadata(proc[p].pay)

OnlyCompletedCheckoutsChange ==
    \A p \in Procs :
        (/\ VerifiedStripeEvent(p)
         /\ proc'[p] # proc[p]
         /\ proc[p].pc # "done"
         /\ <<credits, memCredits, markers>>' # <<credits, memCredits, markers>>)
        => CreditableStripeEvent(p)

OtherEventsAnswered200 ==
    \A p \in Procs :
        (VerifiedStripeEvent(p) /\ ~CreditableStripeEvent(p))
        => /\ proc[p].pc \in {"wh_verify", "done"}
           /\ proc[p].pc = "done" =>
                proc[p].res =
                  CASE request[p].type = "checkout.session.completed" -> "skipped"
                    [] request[p].type = "payment_intent.succeeded" -> "logged"
                    [] request[p].type = "payment_intent.payment_failed" -> "failed"
                    [] request[p].type = "customer.subscription.deleted" -> "logged"
                    [] OTHER -> "ignored"

C17_OnlyCompletedCheckoutsCredit ==
    /\ []OtherEventsAnswered200
    /\ [][OnlyCompletedCheckoutsChange]_vars

\* After session cs_1 was credited, a verified payment_intent.succeeded event
\* naming the paid session cs_2 was answered "logged" and credited nothing.
C17_Witness ==
    \E p \in Procs :
        /\ VerifiedStripeEvent(p) /\ proc[p].pc = "done"
        /\ request[p].type = "payment_intent.succeeded"
        /\ proc[p].pay = "cs_2" /\ proc[p].res = "logged"
        /\ credits["0xa"] = 1 /\ credits["0xb"] = 0
        /\ markers = {SessionKey("cs_1")}

\* ---- C18 (as claimed; the code violates it)
\* POST /wallet/credits/add has no effect on failure: for a valid address and
\* amount > 0 the finished call either answered success with the balance
\* increased by exactly amount, or answered an error with the balance as it
\* was before the call (old_balance = new_balance - amount); a call with
\* amount <= 0 or a malformed address was answered 400.
C18_AddHasNoEffectOnFailure ==
    \A p \in SeqProcs :
        (proc[p].kind = "wallet_add" /\ proc[p].pc = "done") =>
            IF proc[p].amt > 0 /\ validate_address(proc[p].addr)
            THEN LET old_balance == proc[p].cur - proc[p].amt IN
                 \/ /\ proc[p].res = "ok"
                    /\ get_credits(proc[p].addr, FALSE) = old_balance + proc[p].amt
                 \/ /\ proc[p].res # "ok"
                    /\ get_credits(proc[p].addr, FALSE) = old_balance
            ELSE proc[p].res = "400"

\* ---- C19 (as claimed; the code violates it)
\* POST /wallet/credits/use spends the requested amount: a finished call for
\* amount k > 0 on a balance b (the balance the call read) succeeded and left
\* b - k when b >= k, and failed with 402 and left b when b < k.
C19_UseSpendsAmount ==
    \A p \in SeqProcs :
        (/\ proc[p].kind = "wallet_use" /\ proc[p].pc = "done"
         /\ proc[p].amt > 0 /\ validate_address(proc[p].addr)) =>
            LET b == proc[p].cur
                k == proc[p].amt IN
            IF b >= k
            THEN proc[p].res = "ok" /\ get_credits(proc[p].addr, FALSE) = b - k
            ELSE proc[p].res = "402" /\ get_credits(proc[p].addr, FALSE) = b

\* ---- C20 (as claimed; the code violates it)
\* Every valid tier of a GHIBLIFY token purchase is creditable: a finished
\* process-payment request for a transaction not processed before, whose
\* receipt succeeded and went to the payments contract, whose event's buyer
\* is the user address and whose event's package is the contract's name for
\* the requested tier ('don' for unlimited), credited the event's credit
\* count and marked the transaction processed; a request whose buyer or tier
\* does not match credited nothing.
ContractPackage(tier) == IF tier = "unlimited" THEN "don" ELSE tier

TokenRequestMatches(p) ==
    LET d == TokenTx(proc[p].pay) IN
    /\ d.status = 1 /\ d.to_contract
    /\ d.buyer = proc[p].addr
    /\ d.packageTier = ContractPackage(proc[p].tier)

C20_EveryTierCreditable ==
    \A p \in SeqProcs :
        (/\ proc[p].kind = "ghiblify_token" /\ proc[p].pc = "done"
         /\ proc[p].res # "already_processed") =>
            IF TokenRequestMatches(p)
            THEN /\ TokenProcessed(proc[p].pay)
                 /\ granted[proc[p].pay] = TokenTx(proc[p].pay).credits
            ELSE /\ ~TokenProcessed(proc[p].pay)
                 /\ granted[proc[p].pay] = 0

\* ---- C21
\* bulk_credit_operation isolates its operations: the results appended so
\* far are, in input order, the entries that single admin calls executed one
\* after the other at those positions would give (an error entry for an
\* unknown kind and for an operation that raises, which changes nothing); a
\* finished call has exactly one entry per operation and leaves every
\* balance as those single calls would.
SingleCall(op, bal) ==
    CASE op.operation \notin {"add", "set", "get"} ->
            [bal |-> bal,
             entry |-> BulkEntry(op.address, op.operation, None, None,
                                 "unknown_operation")]
      [] op.operation \in {"add", "set", "get"} /\ op.address = None ->
            [bal |-> bal,
             entry |-> BulkEntry(op.address, op.operation, None, None, "raised")]
      [] op.operation = "add" /\ op.address # None ->
            [bal |-> [bal EXCEPT ![op.address] = @ + op.amount],
             entry |-> BulkEntry(op.address, "add_credits", bal[op.address],
                                 bal[op.address] + op.amount, None)]
      [] op.operation = "set" /\ op.address # None ->
            [bal |-> [bal EXCEPT ![op.address] = op.amount],
             entry |-> BulkEntry(op.address, "set_credits", bal[op.address],
                                 op.amount, None)]
      [] op.operation = "get" /\ op.address # None ->
            [bal |-> bal,
             entry |-> BulkEntry(op.address, "get_credits", bal[op.address],
                                 bal[op.address], None)]

RECURSIVE SingleCalls(_)
SingleCalls(ops) ==
    IF ops = <<>>
    THEN [bal |-> [a \in Addr |-> 0], results |-> <<>>]
    ELSE LET before == SingleCalls(SubSeq(ops, 1, Len(ops) - 1))
             call == SingleCall(ops[Len(ops)], before.bal)
         IN [bal |-> call.bal, results |-> Append(before.results, call.entry)]

C21_BulkIsolatesOperations ==
    \A p \in Procs :
        proc[p].kind = "bulk" =>
            LET ops == bulk[p].operations
                n == Len(bulk[p].results)
            IN /\ n <= Len(ops)
               /\ bulk[p].results = SubSeq(SingleCalls(ops).results, 1, n)
               /\ proc[p].pc = "bk_next" =>
                    \A a \in Addr :
                        get_credits(a, FALSE) = SingleCalls(SubSeq(ops, 1, n)).bal[a]
               /\ proc[p].pc = "done" =>
                    /\ n = Len(ops)
                    /\ \A a \in Addr :
                           get_credits(a, FALSE) = SingleCalls(ops).bal[a]

\* A finished call whose first operation raised (no address) and whose
\* second set the balance of 0xa to 2: an error entry, then the set entry.
C21_Witness ==
    \E p \in Procs :
        /\ proc[p].kind = "bulk" /\ proc[p].pc = "done"
        /\ bulk[p].operations =
             <<[address |-> None, operation |-> "add", amount |-> 1],
               [address |-> "0xa", operation |-> "set", amount |-> 2]>>
        /\ Len(bulk[p].results) = 2
        /\ bulk[p].results[1].error = "raised"
        /\ bulk[p].results[2] = BulkEntry("0xa", "set_credits", 0, 2, None)
        /\ credits["0xa"] = 2

====
